---- MODULE Spec2Model ----
(***************************************************************************)
(* A model of the templ code generator (package generator), its change-    *)
(* detection helpers HasGoChanged / HasTextChanged, and the parser         *)
(* fragments that accompany it.                                            *)
(*                                                                         *)
(* The generator is a recursive visitor.  Each writeXxx method of the Go   *)
(* code is translated into an operator of the same name that yields the    *)
(* sequence of steps the method performs (writes to the RangeWriter, calls *)
(* of createVariableName, returns of a fresh error) together with the      *)
(* place control continues when a step fails.  The state machine executes  *)
(* one step per action; the output sink accepts or rejects each write.     *)
(***************************************************************************)
EXTENDS Integers, Sequences, FiniteSets, TLC

VARIABLES
    file,            \* index into Files: the TemplateFile and options given to Generate
    program,         \* the steps generate performs for the file
    pc,              \* position of the generator in Program(file)
    w,               \* g.w, the RangeWriter: [Current, Literals]
    sink,            \* the io.Writer under the RangeWriter: the strings it accepted
    sourceMap,       \* g.sourceMap: [Expressions, SymbolRanges]
    variableID,      \* g.variableID
    childrenVar,     \* g.childrenVar
    names,           \* the local variables vn / classesName / childrenName of the active calls
    tgtSymbolRange,  \* the local tgtSymbolRange of the top-level writer in progress
    err,             \* the error value in flight (the err variable of the active call)
    unwinding,       \* TRUE while a call is returning a non-nil error to its caller
    rejects,         \* how many writes the sink has rejected
    log,             \* history: every write attempted and every error made, in order
    ret,             \* what Generate returned: [done, err, op]
    prev,            \* change detection: the previous GeneratorOutput
    next,            \* change detection: the updated GeneratorOutput
    goChanged,       \* change detection: the result of HasGoChanged(prev, next)
    textChanged,     \* change detection: the result of HasTextChanged(prev, next)
    tokens,          \* parser: the content of the parse.Input, as tokens
    braceErr,        \* parser: whether the open-brace parser reports an error
    parsed,          \* parser: what Parse returned: [done, n, matched, err, index]
    call,            \* a writer called on its own: [fn, ...] with the arguments of the call
    emitted          \* what the call wrote: [done, err, sink, log, literals, sourceMap, ids, names]

genVars == <<file, program, pc, w, sink, sourceMap, variableID, childrenVar, names,
             tgtSymbolRange, err, unwinding, rejects, log, ret>>
cmpVars == <<prev, next, goChanged, textChanged>>
parseVars == <<tokens, braceErr, parsed>>
emitVars == <<call, emitted>>
vars == <<genVars, cmpVars, parseVars, emitVars>>

----------------------------------------------------------------------------
(* Bounds of the model.                                                    *)

\* The number of writes the output sink may reject during one generation.
MaxRejects == 1
\* The longest literals vector of a GeneratorOutput drawn for change detection.
MaxLits == 1
\* The longest expressions table of a GeneratorOutput drawn for change detection.
MaxExprs == 1
\* The longest input given to the template-element parser, in tokens.
MaxTokens == 6
\* The longest attribute list of an element whose writer is called on its own.
MaxAttrs == 2

----------------------------------------------------------------------------
(* Strings.  TLC treats a string as a sequence of one-character strings.   *)

Char(s, i) == SubSeq(s, i, i)

Max(S) == CHOOSE x \in S : \A y \in S : y <= x

RECURSIVE Itoa(_)
\* strconv.Itoa for the non-negative numbers the generator formats.
Itoa(n) == IF n < 10 THEN Char("0123456789", n + 1)
           ELSE Itoa(n \div 10) \o Char("0123456789", (n % 10) + 1)

RECURSIVE Tabs(_)
\* strings.Repeat("\t", level), the indentation WriteIndent prepends.
Tabs(level) == IF level <= 0 THEN "" ELSE "\t" \o Tabs(level - 1)

RECURSIVE MapChars(_, _, _)
\* The string obtained from s by replacing every character c by F(c).
MapChars(F(_), s, i) == IF i > Len(s) THEN "" ELSE F(Char(s, i)) \o MapChars(F, s, i + 1)

QuoteChar(c) == CASE c = "\"" -> "\\\""
                  [] c = "\\" -> "\\\\"
                  [] c = "\n" -> "\\n"
                  [] c = "\t" -> "\\t"
                  [] c = "\r" -> "\\r"
                  [] OTHER -> c

\* escapeQuotes: strconv.Quote(s) without its surrounding quotes.
escapeQuotes(s) == MapChars(QuoteChar, s, 1)

HtmlChar(c) == CASE c = "<" -> "&lt;"
                 [] c = ">" -> "&gt;"
                 [] c = "&" -> "&amp;"
                 [] c = "'" -> "&#39;"
                 [] c = "\"" -> "&#34;"
                 [] OTHER -> c

\* html.EscapeString.
HtmlEscapeString(s) == MapChars(HtmlChar, s, 1)

\* The Go raw-string delimiter (the backtick).  The TLA+ lexer accepts no backtick
\* inside a string, so the model writes the tilde for it everywhere.
BT == "~"

BacktickChar(c) == IF c = BT THEN BT \o " + \"" \o BT \o "\" + " \o BT ELSE c

\* createGoString: a raw Go string literal, each backtick spliced in as a quoted one.
createGoString(s) == BT \o MapChars(BacktickChar, s, 1) \o BT

IsSpace(c) == c \in {" ", "\t", "\n", "\r"}

\* strings.TrimSpace(s) == "".
IsBlank(s) == \A i \in 1..Len(s) : IsSpace(Char(s, i))

\* strings.TrimLeftFunc(s, unicode.IsSpace).
TrimLeft(s) ==
    LET ns == {i \in 1..Len(s) : ~IsSpace(Char(s, i))}
    IN  IF ns = {} THEN "" ELSE SubSeq(s, CHOOSE i \in ns : \A j \in ns : i <= j, Len(s))

\* strings.TrimSpace(s).
TrimSpace(s) ==
    LET ns == {i \in 1..Len(s) : ~IsSpace(Char(s, i))}
    IN  IF ns = {} THEN "" ELSE SubSeq(s, CHOOSE i \in ns : \A j \in ns : i <= j, Max(ns))

HasPrefix(s, p) == Len(s) >= Len(p) /\ SubSeq(s, 1, Len(p)) = p

\* The last element of strings.Split(v, "\n").
LastLine(v) ==
    LET nl == {i \in 1..Len(v) : Char(v, i) = "\n"}
    IN  IF nl = {} THEN v ELSE SubSeq(v, Max(nl) + 1, Len(v))

\* The first element of strings.Split(s, sep) for a one-character sep.
Before(s, sep) ==
    LET at == {i \in 1..Len(s) : Char(s, i) = sep}
    IN  IF at = {} THEN s ELSE SubSeq(s, 1, (CHOOSE i \in at : \A j \in at : i <= j) - 1)

\* What follows the first sep in s; only used when s holds one.
After(s, sep) ==
    LET at == {i \in 1..Len(s) : Char(s, i) = sep}
    IN  SubSeq(s, (CHOOSE i \in at : \A j \in at : i <= j) + 1, Len(s))

\* strings.Contains(s, sub).
ContainsString(s, sub) ==
    \E i \in 1..(Len(s) - Len(sub) + 1) : SubSeq(s, i, i + Len(sub) - 1) = sub

\* strings.HasSuffix(s, p).
HasSuffix(s, p) == Len(s) >= Len(p) /\ SubSeq(s, Len(s) - Len(p) + 1, Len(s)) = p

Contains(s, sep) == \E i \in 1..Len(s) : Char(s, i) = sep

RECURSIVE stripTypes(_)
\* stripTypes: the parameter names of a Go parameter list, joined by ", ".
stripTypes(parameters) ==
    LET param == Before(parameters, ",")
        name  == TrimSpace(Before(TrimSpace(param), " "))
    IN  IF Contains(parameters, ",")
        THEN name \o ", " \o stripTypes(After(parameters, ","))
        ELSE name

----------------------------------------------------------------------------
(* Positions, ranges, expressions (package parser).                         *)

Pos(i, l, c) == [Index |-> i, Line |-> l, Col |-> c]

ZeroPos == Pos(0, 0, 0)

ZeroRange == [From |-> ZeroPos, To |-> ZeroPos]

\* The position reached from p by the text s.
Advance(p, s) ==
    LET nl == {i \in 1..Len(s) : Char(s, i) = "\n"}
    IN  [Index |-> p.Index + Len(s),
         Line  |-> p.Line + Cardinality(nl),
         Col   |-> IF nl = {} THEN p.Col + Len(s) ELSE Len(s) - Max(nl)]

\* An Expression of the template: its text and the range the parser gave it.
Expr(v, i, l, c) == [Value |-> v, Range |-> [From |-> Pos(i, l, c), To |-> Advance(Pos(i, l, c), v)]]

\* The range the parser gave a declaration that spans n bytes of one line.
SrcRange(i, l, c, n) == [From |-> Pos(i, l, c), To |-> Pos(i + n, l, c + n)]

----------------------------------------------------------------------------
(* The template AST (package parser), as far as the generator reads it.    *)

NoSlot == <<>>

NoExpr == [Value |-> "", Range |-> ZeroRange, Var |-> NoSlot]

\* parser.Expression{Value, Range}.  Var is empty for an Expression of the template;
\* it names the classes variable in the Expression writeAttributeCSS builds.
Expression(v, i, l, c) == [Value |-> v, Range |-> Expr(v, i, l, c).Range, Var |-> NoSlot]

\* parser.TrailingSpace.
SpaceNone == ""
SpaceHorizontal == " "
SpaceVertical == "\n"

\* The nil parser.Node.
NilNode == [type |-> "nil"]

\* Element.IsVoidElement: the tag is one of the HTML void elements.
IsVoidElement(n) ==
    n.Name \in {"area", "base", "br", "col", "command", "embed", "hr", "img", "input",
                "keygen", "link", "meta", "param", "source", "track", "wbr"}

\* Element.IsBlockElement: the tag is one of the HTML block elements.
IsBlockElement(n) ==
    n.Name \in {"address", "article", "aside", "body", "blockquote", "canvas", "dd", "div",
                "dl", "dt", "fieldset", "figcaption", "figure", "footer", "form", "h1",
                "h2", "h3", "h4", "h5", "h6", "head", "header", "hr", "html", "li", "main",
                "meta", "nav", "noscript", "ol", "p", "pre", "script", "section", "table",
                "template", "tfoot", "turbo-stream", "ul", "video"}

\* The node types that implement parser.WhitespaceTrailer.
IsWhitespaceTrailer(n) == n.type \in {"Element", "Text", "StringExpression"}

\* AttributeKey.String().
KeyString(key) ==
    IF key.type = "ConstantAttributeKey" THEN key.Name
    ELSE IF key.type = "ExpressionAttributeKey" THEN "{ " \o key.Expression.Value \o " }"
    ELSE ""

\* ConstantCSSProperty.String(true): the minified property.
ConstantCSSPropertyString(p) == p.Name \o ":" \o p.Value \o ";"

----------------------------------------------------------------------------
(* Steps.  A step is one thing a generator method does that can fail or    *)
(* that changes the generator: a write through the RangeWriter (with the   *)
(* sourceMap.Add or AddSymbolRange that follows it when it succeeds), a    *)
(* call of createVariableName, the return of a fresh error, or the end of  *)
(* one round of the loop of writeElementAttributes.  h is the distance to  *)
(* the step where control continues when this step fails: 0 when every     *)
(* caller up to Generate returns the error at once.                        *)

\* Pieces of the text of a write: a fixed string, the text of an Expression,
\* a generated variable name, g.childrenVar.
S(s) == [t |-> "s", s |-> s, e |-> NoExpr, slot |-> NoSlot]
X(e) == [t |-> "e", s |-> "", e |-> e, slot |-> NoSlot]
V(slot) == [t |-> "v", s |-> "", e |-> NoExpr, slot |-> slot]
ChildrenVarRef == [t |-> "c", s |-> "", e |-> NoExpr, slot |-> NoSlot]
\* createGoString(g.options.FileName).
FileNameRef == [t |-> "f", s |-> "", e |-> NoExpr, slot |-> NoSlot]

\* The text of an Expression as the generator writes it.
ExprText(e) ==
    IF e.Var = NoSlot THEN <<X(e)>>
    ELSE <<S("templ.CSSClasses("), V(e.Var), S(").String()")>>

Step == [op |-> "write", fn |-> "", text |-> <<>>, lit |-> FALSE, literal |-> "",
         add |-> FALSE, expr |-> NoExpr, symFrom |-> FALSE, symAdd |-> FALSE,
         symSrc |-> ZeroRange, catch |-> FALSE, slot |-> NoSlot, setChildren |-> FALSE,
         msg |-> "", h |-> 0]

\* g.w.Write(text), issued by the method fn.
Write(fn, text) == [Step EXCEPT !.fn = fn, !.text = text]

\* g.w.WriteIndent(level, text): the indentation, then the text, as one write.
WriteIndent(fn, level, text) == Write(fn, <<S(Tabs(level))>> \o text)

\* The statement WriteStringLiteral emits for the literal s.
LiteralStatement(s) ==
    "_, templ_7745c5c3_Err = templ_7745c5c3_Buffer.WriteString(\"" \o s \o "\")\n"

\* g.w.WriteStringLiteral(level, s): the statement that writes s at run time; a
\* successful call appends s to the literals.
WriteStringLiteral(fn, level, s) ==
    [WriteIndent(fn, level, <<S(LiteralStatement(s))>>) EXCEPT !.lit = TRUE, !.literal = s]

\* The write without the g.sourceMap.Add that follows it.
Add_Dropped(step, e) == step

\* r, err = write; g.sourceMap.Add(e, r).
Add(step, e) == [step EXCEPT !.add = TRUE, !.expr = e]

\* The write without the assignment to tgtSymbolRange.From that follows it.
SymbolFrom_Dropped(step) == step

\* r, err = write; tgtSymbolRange.From = r.From.
SymbolFrom(step) == [step EXCEPT !.symFrom = TRUE]

\* r, err = write; tgtSymbolRange.To = r.To; g.sourceMap.AddSymbolRange(src, tgtSymbolRange).
AddSymbolRange(step, src) == [step EXCEPT !.symAdd = TRUE, !.symSrc = src]

\* slot = g.createVariableName().
CreateVariableName(fn, slot) == [Step EXCEPT !.op = "newvar", !.fn = fn, !.slot = slot]

\* return an error made on the spot (errors.New, fmt.Errorf).
ReturnError(fn, msg) == [Step EXCEPT !.op = "fail", !.fn = fn, !.msg = msg]

\* The steps of body, followed by handler; a step of body that fails and has no
\* handler of its own continues at handler.
Catch(body, handler) ==
    [i \in 1..Len(body) |->
        IF body[i].h = 0 THEN [body[i] EXCEPT !.h = Len(body) + 1 - i] ELSE body[i]]
    \o <<handler>>

----------------------------------------------------------------------------
(* The generator: file prologue and top-level declarations.                *)

RECURSIVE Concat(_)
\* The concatenation of a sequence of step sequences.
Concat(ss) == IF Len(ss) = 0 THEN <<>> ELSE Head(ss) \o Concat(Tail(ss))

RECURSIVE writeNodes(_, _, _, _)
RECURSIVE writeElementAttributes(_, _, _, _)
RECURSIVE writeAttributesCSS(_, _, _)
RECURSIVE rewriteAttributesCSS(_, _)
RECURSIVE getAttributeScripts(_)

writeCodeGeneratedComment(options) ==
    IF options.SkipCodeGeneratedComment
    THEN <<Write("writeCodeGeneratedComment", <<S("//\n\n")>>)>>
    ELSE <<Write("writeCodeGeneratedComment",
                 <<S("// Code generated by templ - DO NOT EDIT.\n\n")>>)>>

writeVersionComment(options) ==
    IF options.Version # ""
    THEN <<Write("writeVersionComment",
                 <<S("// templ: version: " \o options.Version \o "\n")>>)>>
    ELSE <<>>

writeGeneratedDateComment(options) ==
    IF options.GeneratedDate # ""
    THEN <<Write("writeGeneratedDateComment",
                 <<S("// templ: generated: " \o options.GeneratedDate \o "\n")>>)>>
    ELSE <<>>

writeGoExpression(n) ==
    IF n.Nil THEN <<ReturnError("writeGoExpression", "go expression is nil")>>
    ELSE <<SymbolFrom(Add(Write("writeGoExpression", <<X(n.Expression)>>), n.Expression))>>
         \o (IF HasPrefix(LastLine(n.Expression.Value), "//")
             THEN <<WriteIndent("writeGoExpression", 0, <<S("\n")>>)>>
             ELSE <<AddSymbolRange(WriteIndent("writeGoExpression", 0, <<S("\n\n")>>),
                                   n.Expression.Range)>>)

writeHeader(tf) ==
    Concat([i \in 1..Len(tf.Header) |-> writeGoExpression(tf.Header[i])])

writePackage(tf) ==
    << Add(Write("writePackage", <<X(tf.Package.Expression), S("\n\n")>>),
           tf.Package.Expression),
       Write("writePackage",
             <<S("//lint:file-ignore SA4006 This context is only used if a nested component is present.\n\n")>>) >>

writeImports ==
    << Write("writeImports", <<S("import \"github.com/a-h/templ\"\n")>>),
       Write("writeImports", <<S("import templruntime \"github.com/a-h/templ/runtime\"\n")>>),
       Write("writeImports", <<S("\n")>>) >>

writeBlankAssignmentForRuntimeImport ==
    << Write("writeBlankAssignmentForRuntimeImport",
             <<S("var _ = templruntime.GeneratedTemplate")>>) >>

writeCSSProperty(indentLevel, p) ==
    CASE p.type = "ConstantCSSProperty" ->
           << WriteIndent("writeCSS", indentLevel,
                <<S("templ_7745c5c3_CSSBuilder.WriteString("
                    \o createGoString(ConstantCSSPropertyString(p)) \o ")\n")>>) >>
      [] p.type = "ExpressionCSSProperty" ->
           << WriteIndent("writeCSS", indentLevel,
                <<S("templ_7745c5c3_CSSBuilder.WriteString(string(templ.SanitizeCSS("
                    \o BT \o p.Name \o BT \o ", ")>>),
              Add(Write("writeCSS", <<X(p.Value.Expression)>>), p.Value.Expression),
              Write("writeCSS", <<S(")))\n")>>) >>
      [] OTHER -> <<ReturnError("writeCSS", "unknown CSS property type")>>

writeCSS(n) ==
    IF n.Nil THEN <<ReturnError("writeCSS", "CSS template is nil")>>
    ELSE
    << SymbolFrom(Write("writeCSS", <<S("func ")>>)),
       Add(Write("writeCSS", <<X(n.Expression)>>), n.Expression),
       Write("writeCSS", <<S(" templ.CSSClass {\n")>>),
       WriteIndent("writeCSS", 1, <<S("templ_7745c5c3_CSSBuilder := templruntime.GetBuilder()\n")>>) >>
    \o Concat([i \in 1..Len(n.Properties) |-> writeCSSProperty(1, n.Properties[i])])
    \o
    << WriteIndent("writeCSS", 1,
         <<S("templ_7745c5c3_CSSID := templ.CSSID(" \o BT \o n.Name \o BT
             \o ", templ_7745c5c3_CSSBuilder.String())\n")>>),
       WriteIndent("writeCSS", 1, <<S("return templ.ComponentCSSClass{\n")>>),
       WriteIndent("writeCSS", 2, <<S("ID: templ_7745c5c3_CSSID,\n")>>),
       WriteIndent("writeCSS", 2,
         <<S("Class: templ.SafeCSS(" \o BT \o "." \o BT \o " + templ_7745c5c3_CSSID + "
             \o BT \o "{" \o BT \o " + templ_7745c5c3_CSSBuilder.String() + "
             \o BT \o "}" \o BT \o "),\n")>>),
       WriteIndent("writeCSS", 1, <<S("}\n")>>),
       AddSymbolRange(WriteIndent("writeCSS", 0, <<S("}\n\n")>>), n.Range) >>

\* hex.EncodeToString(sha256(body))[0:4] for the script bodies of the sample files.
Sha256Hex4(body) ==
    CASE body = "" -> "e3b0"
      [] body = "alert(1)" -> "6e11"
      [] body = "\n\tconsole.log(a)\n" -> "0c63"
      [] OTHER -> "0000"

functionName(name, body) == "__templ_" \o name \o "_" \o Sha256Hex4(body)

writeScript(t) ==
    IF t.Nil THEN <<ReturnError("writeScript", "script template is nil")>>
    ELSE
    LET fn     == functionName(t.Name.Value, t.Value)
        goFn   == createGoString(fn)
        prefix == "function " \o fn \o "(" \o stripTypes(t.Parameters.Value) \o "){"
        body   == TrimLeft(t.Value)
        suffix == "}"
    IN
    << SymbolFrom(Write("writeScript", <<S("func ")>>)),
       Add(Write("writeScript", <<X(t.Name)>>), t.Name),
       Write("writeScript", <<S("(")>>),
       Add(Write("writeScript", <<X(t.Parameters)>>), t.Parameters),
       Write("writeScript", <<S(") templ.ComponentScript {\n")>>),
       WriteIndent("writeScript", 1, <<S("return templ.ComponentScript{\n")>>),
       WriteIndent("writeScript", 2, <<S("Name: " \o goFn \o ",\n")>>),
       WriteIndent("writeScript", 2,
         <<S("Function: " \o createGoString(prefix \o body \o suffix) \o ",\n")>>),
       WriteIndent("writeScript", 2,
         <<S("Call: templ.SafeScript(" \o goFn \o ", "
             \o stripTypes(t.Parameters.Value) \o "),\n")>>),
       WriteIndent("writeScript", 2,
         <<S("CallInline: templ.SafeScriptInline(" \o goFn \o ", "
             \o stripTypes(t.Parameters.Value) \o "),\n")>>),
       WriteIndent("writeScript", 1, <<S("}\n")>>),
       AddSymbolRange(WriteIndent("writeScript", 0, <<S("}\n\n")>>), t.Range) >>

writeTemplBuffer(indentLevel) ==
    << WriteIndent("writeTemplBuffer", indentLevel,
         <<S("templ_7745c5c3_Buffer, templ_7745c5c3_IsBuffer := templruntime.GetBuffer(templ_7745c5c3_W)\n")>>),
       WriteIndent("writeTemplBuffer", indentLevel, <<S("if !templ_7745c5c3_IsBuffer {\n")>>),
       WriteIndent("writeTemplBuffer", indentLevel + 1, <<S("defer func() {\n")>>),
       WriteIndent("writeTemplBuffer", indentLevel + 2,
         <<S("templ_7745c5c3_BufErr := templruntime.ReleaseBuffer(templ_7745c5c3_Buffer)\n")>>),
       WriteIndent("writeTemplBuffer", indentLevel + 2, <<S("if templ_7745c5c3_Err == nil {\n")>>),
       WriteIndent("writeTemplBuffer", indentLevel + 3,
         <<S("templ_7745c5c3_Err = templ_7745c5c3_BufErr\n")>>),
       WriteIndent("writeTemplBuffer", indentLevel + 2, <<S("}\n")>>),
       WriteIndent("writeTemplBuffer", indentLevel + 1, <<S("}()\n")>>),
       WriteIndent("writeTemplBuffer", indentLevel, <<S("}\n")>>) >>

writeErrorHandler(indentLevel) ==
    << WriteIndent("writeErrorHandler", indentLevel, <<S("if templ_7745c5c3_Err != nil {\n")>>),
       WriteIndent("writeErrorHandler", indentLevel + 1, <<S("return templ_7745c5c3_Err\n")>>),
       WriteIndent("writeErrorHandler", indentLevel, <<S("}\n")>>) >>

writeExpressionErrorHandler(indentLevel, expression) ==
    LET line == expression.Range.To.Line + 1
        col  == expression.Range.To.Col
    IN
    << WriteIndent("writeExpressionErrorHandler", indentLevel,
         <<S("if templ_7745c5c3_Err != nil {\n")>>),
       WriteIndent("writeExpressionErrorHandler", indentLevel + 1,
         <<S("return\ttempl.Error{Err: templ_7745c5c3_Err, FileName: "), FileNameRef,
           S(", Line: " \o Itoa(line) \o ", Col: " \o Itoa(col) \o "}\n")>>),
       WriteIndent("writeExpressionErrorHandler", indentLevel, <<S("}\n")>>) >>

\* stripWhitespace removing the whitespace nodes at the two ends only.
stripWhitespace_EdgesOnly(input) ==
    LET ns == {i \in 1..Len(input) : input[i].type # "Whitespace"}
    IN  IF ns = {} THEN <<>>
        ELSE SubSeq(input, CHOOSE i \in ns : \A j \in ns : i <= j,
                           CHOOSE i \in ns : \A j \in ns : j <= i)

stripWhitespace(input) == SelectSeq(input, LAMBDA n : n.type # "Whitespace")

stripLeadingWhitespace(nodes) ==
    LET ns == {i \in 1..Len(nodes) : nodes[i].type # "Whitespace"}
    IN  IF ns = {} THEN <<>>
        ELSE SubSeq(nodes, CHOOSE i \in ns : \A j \in ns : i <= j, Len(nodes))

stripTrailingWhitespace(nodes) ==
    LET ns == {i \in 1..Len(nodes) : nodes[i].type # "Whitespace"}
    IN  IF ns = {} THEN <<>> ELSE SubSeq(nodes, 1, Max(ns))

stripLeadingAndTrailingWhitespace(nodes) ==
    stripTrailingWhitespace(stripLeadingWhitespace(nodes))

writeTemplate(nodeIdx, t, tf, path) ==
    IF t.Nil THEN <<ReturnError("writeTemplate", "template is nil")>>
    ELSE
    << SymbolFrom(Write("writeTemplate", <<S("func ")>>)),
       Add(Write("writeTemplate", <<X(t.Expression)>>), t.Expression),
       Write("writeTemplate", <<S(" templ.Component {\n")>>),
       WriteIndent("writeTemplate", 1,
         <<S("return templruntime.GeneratedTemplate(func(templ_7745c5c3_Input templruntime.GeneratedComponentInput) (templ_7745c5c3_Err error) {\n")>>),
       WriteIndent("writeTemplate", 2,
         <<S("templ_7745c5c3_W, ctx := templ_7745c5c3_Input.Writer, templ_7745c5c3_Input.Context\n")>>),
       WriteIndent("writeTemplate", 2,
         <<S("if templ_7745c5c3_CtxErr := ctx.Err(); templ_7745c5c3_CtxErr != nil {\n")>>),
       WriteIndent("writeTemplate", 3, <<S("return templ_7745c5c3_CtxErr")>>),
       WriteIndent("writeTemplate", 2, <<S("}\n")>>) >>
    \o writeTemplBuffer(2)
    \o
    << WriteIndent("writeTemplate", 2, <<S("ctx = templ.InitializeContext(ctx)\n")>>),
       [CreateVariableName("writeTemplate", <<path, "childrenVar">>)
            EXCEPT !.setChildren = TRUE],
       WriteIndent("writeTemplate", 2, <<ChildrenVarRef, S(" := templ.GetChildren(ctx)\n")>>),
       WriteIndent("writeTemplate", 2, <<S("if "), ChildrenVarRef, S(" == nil {\n")>>),
       WriteIndent("writeTemplate", 3, <<ChildrenVarRef, S(" = templ.NopComponent\n")>>),
       WriteIndent("writeTemplate", 2, <<S("}\n")>>),
       WriteIndent("writeTemplate", 2, <<S("ctx = templ.ClearChildren(ctx)\n")>>) >>
    \o writeNodes(2, stripWhitespace(t.Children), NilNode, path)
    \o
    << WriteIndent("writeTemplate", 2, <<S("return nil\n")>>),
       WriteIndent("writeTemplate", 1, <<S("})\n")>>),
       AddSymbolRange(
         WriteIndent("writeTemplate", 0,
           <<S(IF nodeIdx + 1 >= Len(tf.Nodes) THEN "}\n" ELSE "}\n\n")>>),
         t.Range) >>

----------------------------------------------------------------------------
(* The generator: nodes of an HTML template.                               *)

\* isInlineOrText counting every element, block elements included.
isInlineOrText_AnyElement(n) ==
    n.type \in {"IfExpression", "SwitchExpression", "ForExpression", "Element", "Text",
                "StringExpression"}

isInlineOrText(n) ==
    CASE n.type = "nil" -> FALSE
      [] n.type \in {"IfExpression", "SwitchExpression", "ForExpression"} -> TRUE
      [] n.type = "Element" -> ~IsBlockElement(n)
      [] n.type \in {"Text", "StringExpression"} -> TRUE
      [] OTHER -> FALSE

\* writeWhitespaceTrailer without the normalisation of vertical whitespace.
writeWhitespaceTrailer_Raw(indentLevel, n) ==
    IF n = SpaceNone THEN <<>>
    ELSE <<WriteStringLiteral("writeWhitespaceTrailer", indentLevel, n)>>

writeWhitespaceTrailer(indentLevel, n) ==
    IF n = SpaceNone THEN <<>>
    ELSE <<WriteStringLiteral("writeWhitespaceTrailer", indentLevel,
                              IF n = SpaceVertical THEN SpaceHorizontal ELSE n)>>

writeDocType(indentLevel, n) ==
    <<WriteStringLiteral("writeDocType", indentLevel,
                         "<!doctype " \o escapeQuotes(n.Value) \o ">")>>

writeText(indentLevel, value) ==
    <<WriteStringLiteral("writeText", indentLevel, escapeQuotes(value))>>

writeWhitespace(indentLevel, n) ==
    IF Len(n.Value) = 0 THEN <<>>
    ELSE <<WriteStringLiteral("writeWhitespace", indentLevel, " ")>>

writeComment(indentLevel, c) ==
    <<WriteStringLiteral("writeComment", indentLevel, "<!--")>>
    \o writeText(indentLevel, c.Contents)
    \o <<WriteStringLiteral("writeComment", indentLevel, "-->")>>

writeChildrenExpression(indentLevel) ==
    <<WriteIndent("writeChildrenExpression", indentLevel,
        <<S("templ_7745c5c3_Err = "), ChildrenVarRef,
          S(".Render(ctx, templ_7745c5c3_Buffer)\n")>>)>>
    \o writeErrorHandler(indentLevel)

writeGoCode(indentLevel, e) ==
    IF IsBlank(e.Value) THEN <<>>
    ELSE <<Add(WriteIndent("writeGoCode", indentLevel, <<X(e), S("\n")>>), e)>>

\* writeStringExpression putting the text of the expression into a literal.
writeStringExpression_AsLiteral(indentLevel, e, path) ==
    IF IsBlank(e.Value) THEN <<>>
    ELSE << Add(WriteIndent("writeStringExpression", indentLevel, <<S("_ = "), X(e), S("\n")>>), e),
            WriteStringLiteral("writeStringExpression", indentLevel, escapeQuotes(e.Value)) >>

writeStringExpression(indentLevel, e, path) ==
    IF IsBlank(e.Value) THEN <<>>
    ELSE LET vn == <<path, "vn">> IN
    << CreateVariableName("writeStringExpression", vn),
       WriteIndent("writeStringExpression", indentLevel, <<S("var "), V(vn), S(" string\n")>>),
       WriteIndent("writeStringExpression", indentLevel,
         <<V(vn), S(", templ_7745c5c3_Err = templ.JoinStringErrs(")>>),
       Add(Write("writeStringExpression", <<X(e)>>), e),
       Write("writeStringExpression", <<S(")\n")>>) >>
    \o writeExpressionErrorHandler(indentLevel, e)
    \o <<WriteIndent("writeStringExpression", indentLevel,
           <<S("_, templ_7745c5c3_Err = templ_7745c5c3_Buffer.WriteString(templ.EscapeString("),
             V(vn), S("))\n")>>)>>
    \o writeErrorHandler(indentLevel)

writeCallTemplateExpression(indentLevel, n) ==
    << WriteIndent("writeCallTemplateExpression", indentLevel, <<S("templ_7745c5c3_Err = ")>>),
       Add(Write("writeCallTemplateExpression", <<X(n.Expression)>>), n.Expression),
       Write("writeCallTemplateExpression", <<S(".Render(ctx, templ_7745c5c3_Buffer)\n")>>) >>
    \o writeErrorHandler(indentLevel)

writeSelfClosingTemplElementExpression(indentLevel, n) ==
    << WriteIndent("writeSelfClosingTemplElementExpression", indentLevel,
         <<S("templ_7745c5c3_Err = ")>>),
       Add(Write("writeSelfClosingTemplElementExpression", <<X(n.Expression)>>), n.Expression),
       Write("writeSelfClosingTemplElementExpression",
         <<S(".Render(ctx, templ_7745c5c3_Buffer)\n")>>) >>
    \o writeErrorHandler(indentLevel)

writeBlockTemplElementExpression(indentLevel, n, path) ==
    LET childrenName == <<path, "childrenName">> IN
    << CreateVariableName("writeBlockTemplElementExpression", childrenName),
       WriteIndent("writeBlockTemplElementExpression", indentLevel,
         <<V(childrenName),
           S(" := templruntime.GeneratedTemplate(func(templ_7745c5c3_Input templruntime.GeneratedComponentInput) (templ_7745c5c3_Err error) {\n")>>),
       WriteIndent("writeBlockTemplElementExpression", indentLevel + 1,
         <<S("templ_7745c5c3_W, ctx := templ_7745c5c3_Input.Writer, templ_7745c5c3_Input.Context\n")>>) >>
    \o writeTemplBuffer(indentLevel + 1)
    \o <<WriteIndent("writeBlockTemplElementExpression", indentLevel + 1,
           <<S("ctx = templ.InitializeContext(ctx)\n")>>)>>
    \o writeNodes(indentLevel + 1, stripLeadingAndTrailingWhitespace(n.Children), NilNode, path)
    \o
    << WriteIndent("writeBlockTemplElementExpression", indentLevel + 1, <<S("return nil\n")>>),
       WriteIndent("writeBlockTemplElementExpression", indentLevel, <<S("})\n")>>),
       WriteIndent("writeBlockTemplElementExpression", indentLevel,
         <<S("templ_7745c5c3_Err = ")>>),
       Add(Write("writeBlockTemplElementExpression", <<X(n.Expression)>>), n.Expression),
       Write("writeBlockTemplElementExpression",
         <<S(".Render(templ.WithChildren(ctx, "), V(childrenName),
           S("), templ_7745c5c3_Buffer)\n")>>) >>
    \o writeErrorHandler(indentLevel)

\* writeTemplElementExpression taking the direct call for every expression.
writeTemplElementExpression_AlwaysDirect(indentLevel, n, path) ==
    writeSelfClosingTemplElementExpression(indentLevel, n)

writeTemplElementExpression(indentLevel, n, path) ==
    IF Len(n.Children) = 0
    THEN writeSelfClosingTemplElementExpression(indentLevel, n)
    ELSE writeBlockTemplElementExpression(indentLevel, n, path)

writeIfExpression(indentLevel, n, nextNode, path) ==
    << WriteIndent("writeIfExpression", indentLevel, <<S("if ")>>),
       Add(Write("writeIfExpression", <<X(n.Expression)>>), n.Expression),
       Write("writeIfExpression", <<S(" {\n")>>) >>
    \o writeNodes(indentLevel + 1, stripLeadingAndTrailingWhitespace(n.Then), nextNode,
                  path \o <<1>>)
    \o Concat([m \in 1..Len(n.ElseIfs) |->
         << WriteIndent("writeIfExpression", indentLevel, <<S("} else if ")>>),
            Add(Write("writeIfExpression", <<X(n.ElseIfs[m].Expression)>>),
                n.ElseIfs[m].Expression),
            Write("writeIfExpression", <<S(" {\n")>>) >>
         \o writeNodes(indentLevel + 1, stripLeadingAndTrailingWhitespace(n.ElseIfs[m].Then),
                       nextNode, path \o <<2, m>>)])
    \o (IF Len(n.Else) > 0
        THEN <<WriteIndent("writeIfExpression", indentLevel, <<S("} else {\n")>>)>>
             \o writeNodes(indentLevel + 1, stripLeadingAndTrailingWhitespace(n.Else),
                           nextNode, path \o <<3>>)
        ELSE <<>>)
    \o <<WriteIndent("writeIfExpression", indentLevel, <<S("}\n")>>)>>

writeSwitchExpression(indentLevel, n, next_, path) ==
    << WriteIndent("writeSwitchExpression", indentLevel, <<S("switch ")>>),
       Add(Write("writeSwitchExpression", <<X(n.Expression)>>), n.Expression),
       Write("writeSwitchExpression", <<S(" {\n")>>) >>
    \o Concat([m \in 1..Len(n.Cases) |->
         <<Add(WriteIndent("writeSwitchExpression", indentLevel, <<X(n.Cases[m].Expression)>>),
               n.Cases[m].Expression)>>
         \o writeNodes(indentLevel + 1, stripLeadingAndTrailingWhitespace(n.Cases[m].Children),
                       next_, path \o <<m>>)])
    \o <<WriteIndent("writeSwitchExpression", indentLevel, <<S("}\n")>>)>>

writeForExpression(indentLevel, n, next_, path) ==
    << WriteIndent("writeForExpression", indentLevel, <<S("for ")>>),
       Add(Write("writeForExpression", <<X(n.Expression)>>), n.Expression),
       Write("writeForExpression", <<S(" {\n")>>) >>
    \o writeNodes(indentLevel + 1, stripLeadingAndTrailingWhitespace(n.Children), next_, path)
    \o <<WriteIndent("writeForExpression", indentLevel, <<S("}\n")>>)>>

----------------------------------------------------------------------------
(* The generator: elements and their attributes.                           *)

isScriptAttribute(name) == HasPrefix(name, "on") \/ HasPrefix(name, "hx-on:")

\* isExpressionAttributeValueURL taking every href for a URL, whatever the element.
isExpressionAttributeValueURL_AnyHref(elementName, attrName) == attrName = "href"

isExpressionAttributeValueURL(elementName, attrName) ==
    CASE elementName \in {"a", "link"} -> attrName = "href"
      [] elementName = "form" -> attrName = "action"
      [] elementName = "object" -> attrName = "data"
      [] OTHER -> FALSE

\* The Expressions whose text RenderScriptItems is to receive, in order.
getAttributeScripts(attr) ==
    (IF attr.type = "ConditionalAttribute"
     THEN Concat([k \in 1..Len(attr.Then) |-> getAttributeScripts(attr.Then[k])])
          \o Concat([k \in 1..Len(attr.Else) |-> getAttributeScripts(attr.Else[k])])
     ELSE <<>>)
    \o
    (IF attr.type = "ExpressionAttribute"
        /\ isScriptAttribute(HtmlEscapeString(KeyString(attr.Key)))
     THEN <<attr.Expression>>
     ELSE <<>>)

\* strings.Join of the texts of the script expressions, with ", ".
JoinScripts(es) ==
    Concat([k \in 1..Len(es) |-> (IF k > 1 THEN <<S(", ")>> ELSE <<>>) \o ExprText(es[k])])

\* writeElementScript emitting one RenderScriptItems call for each handler.
writeElementScript_OneCallEach(indentLevel, attrs) ==
    LET scriptExpressions == Concat([k \in 1..Len(attrs) |-> getAttributeScripts(attrs[k])])
    IN  Concat([k \in 1..Len(scriptExpressions) |->
                  <<WriteIndent("writeElementScript", indentLevel,
                      <<S("templ_7745c5c3_Err = templ.RenderScriptItems(ctx, templ_7745c5c3_Buffer, ")>>
                      \o ExprText(scriptExpressions[k]) \o <<S(")\n")>>)>>
                  \o writeErrorHandler(indentLevel)])

writeElementScript(indentLevel, attrs) ==
    LET scriptExpressions == Concat([k \in 1..Len(attrs) |-> getAttributeScripts(attrs[k])])
    IN  IF Len(scriptExpressions) = 0 THEN <<>>
        ELSE <<WriteIndent("writeElementScript", indentLevel,
                 <<S("templ_7745c5c3_Err = templ.RenderScriptItems(ctx, templ_7745c5c3_Buffer, ")>>
                 \o JoinScripts(scriptExpressions) \o <<S(")\n")>>)>>
             \o writeErrorHandler(indentLevel)

\* The ExpressionAttribute writeAttributeCSS returns for a class attribute.
newAttr(attr, q) ==
    [type |-> "ExpressionAttribute", Key |-> attr.Key,
     Expression |-> [Value |-> "", Range |-> ZeroRange, Var |-> <<q, "classesName">>]]

writeAttributeCSS(indentLevel, attr, q) ==
    IF HtmlEscapeString(KeyString(attr.Key)) # "class" THEN <<>>
    ELSE LET classesName == <<q, "classesName">> IN
    << CreateVariableName("writeAttributeCSS", classesName),
       WriteIndent("writeAttributeCSS", indentLevel,
         <<S("var "), V(classesName), S(" = []any{")>>),
       Add(Write("writeAttributeCSS", <<X(attr.Expression)>>), attr.Expression),
       Write("writeAttributeCSS", <<S("}\n")>>),
       WriteIndent("writeAttributeCSS", indentLevel,
         <<S("templ_7745c5c3_Err = templ.RenderCSSItems(ctx, templ_7745c5c3_Buffer, "),
           V(classesName), S("...)\n")>>) >>
    \o writeErrorHandler(indentLevel)

writeAttributesCSS(indentLevel, attrs, apath) ==
    Concat([i \in 1..Len(attrs) |->
        CASE attrs[i].type = "ExpressionAttribute" ->
               writeAttributeCSS(indentLevel, attrs[i], apath \o <<i>>)
          [] attrs[i].type = "ConditionalAttribute" ->
               writeAttributesCSS(indentLevel, attrs[i].Then, apath \o <<i, 1>>)
               \o writeAttributesCSS(indentLevel, attrs[i].Else, apath \o <<i, 2>>)
          [] OTHER -> <<>>])

\* The attribute list as writeAttributesCSS leaves it: attrs[i] = newAttr for
\* every class ExpressionAttribute, also inside conditional attributes.
rewriteAttributesCSS(attrs, apath) ==
    [i \in 1..Len(attrs) |->
        CASE attrs[i].type = "ExpressionAttribute" ->
               IF HtmlEscapeString(KeyString(attrs[i].Key)) = "class"
               THEN newAttr(attrs[i], apath \o <<i>>)
               ELSE attrs[i]
          [] attrs[i].type = "ConditionalAttribute" ->
               [attrs[i] EXCEPT !.Then = rewriteAttributesCSS(attrs[i].Then, apath \o <<i, 1>>),
                                !.Else = rewriteAttributesCSS(attrs[i].Else, apath \o <<i, 2>>)]
          [] OTHER -> attrs[i]]

writeElementCSS(indentLevel, attrs, apath) == writeAttributesCSS(indentLevel, attrs, apath)

writeAttributeKey(indentLevel, key, q) ==
    CASE key.type = "ConstantAttributeKey" ->
           <<WriteStringLiteral("writeAttributeKey", indentLevel,
                                " " \o HtmlEscapeString(key.Name))>>
      [] key.type = "ExpressionAttributeKey" ->
           LET vn == <<q, "keyVn">> IN
           << CreateVariableName("writeAttributeKey", vn),
              WriteIndent("writeAttributeKey", indentLevel, <<S("var "), V(vn), S(" string\n")>>),
              WriteIndent("writeAttributeKey", indentLevel,
                <<V(vn), S(", templ_7745c5c3_Err = templ.JoinStringErrs(")>>),
              Add(Write("writeAttributeKey", ExprText(key.Expression)), key.Expression),
              Write("writeAttributeKey", <<S(")\n")>>) >>
           \o writeExpressionErrorHandler(indentLevel, key.Expression)
           \o <<WriteIndent("writeAttributeKey", indentLevel,
                  <<S("_, templ_7745c5c3_Err = templ_7745c5c3_Buffer.WriteString(templ.EscapeString("
                      \o BT \o " " \o BT \o "+"), V(vn), S("))\n")>>)>>
           \o writeErrorHandler(indentLevel)
      [] OTHER -> <<ReturnError("writeAttributeKey", "unknown attribute key type")>>

writeBoolConstantAttribute(indentLevel, attr, q) == writeAttributeKey(indentLevel, attr.Key, q)

writeConstantAttribute(indentLevel, attr, q) ==
    LET quote == IF attr.SingleQuote THEN "'" ELSE "\"" IN
    writeAttributeKey(indentLevel, attr.Key, q)
    \o <<WriteStringLiteral("writeConstantAttribute", indentLevel,
                            escapeQuotes("=" \o quote \o attr.Value \o quote))>>

writeBoolExpressionAttribute(indentLevel, attr, q) ==
    << WriteIndent("writeBoolExpressionAttribute", indentLevel, <<S("if ")>>),
       Add(Write("writeBoolExpressionAttribute", ExprText(attr.Expression)), attr.Expression),
       Write("writeBoolExpressionAttribute", <<S(" {\n")>>) >>
    \o writeAttributeKey(indentLevel + 1, attr.Key, q)
    \o <<WriteIndent("writeBoolExpressionAttribute", indentLevel, <<S("}\n")>>)>>

writeExpressionAttributeValueURL(indentLevel, attr, q) ==
    LET vn == <<q, "vn">> IN
    << CreateVariableName("writeExpressionAttributeValueURL", vn),
       WriteIndent("writeExpressionAttributeValueURL", indentLevel,
         <<S("var "), V(vn), S(" templ.SafeURL\n")>>),
       WriteIndent("writeExpressionAttributeValueURL", indentLevel,
         <<V(vn), S(", templ_7745c5c3_Err = templ.JoinURLErrs(")>>),
       Add(Write("writeExpressionAttributeValueURL", ExprText(attr.Expression)),
           attr.Expression),
       Write("writeExpressionAttributeValueURL", <<S(")\n")>>) >>
    \o writeExpressionErrorHandler(indentLevel, attr.Expression)
    \o <<WriteIndent("writeExpressionAttributeValueURL", indentLevel,
           <<S("_, templ_7745c5c3_Err = templ_7745c5c3_Buffer.WriteString(templ.EscapeString("),
             V(vn), S("))\n")>>)>>
    \o writeErrorHandler(indentLevel)

writeExpressionAttributeValueScript(indentLevel, attr, q) ==
    LET vn == <<q, "vn">> IN
    << CreateVariableName("writeExpressionAttributeValueScript", vn),
       WriteIndent("writeExpressionAttributeValueScript", indentLevel,
         <<S("var "), V(vn), S(" templ.ComponentScript = ")>>),
       Add(Write("writeExpressionAttributeValueScript", ExprText(attr.Expression)),
           attr.Expression),
       Write("writeExpressionAttributeValueScript", <<S("\n")>>),
       WriteIndent("writeExpressionAttributeValueScript", indentLevel,
         <<S("_, templ_7745c5c3_Err = templ_7745c5c3_Buffer.WriteString("),
           V(vn), S(".Call)\n")>>) >>
    \o writeErrorHandler(indentLevel)

writeExpressionAttributeValueDefault(indentLevel, attr, q) ==
    LET vn == <<q, "vn">> IN
    << CreateVariableName("writeExpressionAttributeValueDefault", vn),
       WriteIndent("writeExpressionAttributeValueDefault", indentLevel,
         <<S("var "), V(vn), S(" string\n")>>),
       WriteIndent("writeExpressionAttributeValueDefault", indentLevel,
         <<V(vn), S(", templ_7745c5c3_Err = templ.JoinStringErrs(")>>),
       Add(Write("writeExpressionAttributeValueDefault", ExprText(attr.Expression)),
           attr.Expression),
       Write("writeExpressionAttributeValueDefault", <<S(")\n")>>) >>
    \o writeExpressionErrorHandler(indentLevel, attr.Expression)
    \o <<WriteIndent("writeExpressionAttributeValueDefault", indentLevel,
           <<S("_, templ_7745c5c3_Err = templ_7745c5c3_Buffer.WriteString(templ.EscapeString("),
             V(vn), S("))\n")>>)>>
    \o writeErrorHandler(indentLevel)

writeExpressionAttributeValueStyle(indentLevel, attr, q) ==
    LET vn == <<q, "vn">> IN
    << CreateVariableName("writeExpressionAttributeValueStyle", vn),
       WriteIndent("writeExpressionAttributeValueStyle", indentLevel,
         <<S("var "), V(vn), S(" string\n")>>),
       WriteIndent("writeExpressionAttributeValueStyle", indentLevel,
         <<V(vn), S(", templ_7745c5c3_Err = templruntime.SanitizeStyleAttributeValues(")>>),
       Add(Write("writeExpressionAttributeValueStyle", ExprText(attr.Expression)),
           attr.Expression),
       Write("writeExpressionAttributeValueStyle", <<S(")\n")>>) >>
    \o writeExpressionErrorHandler(indentLevel, attr.Expression)
    \o <<WriteIndent("writeExpressionAttributeValueStyle", indentLevel,
           <<S("_, templ_7745c5c3_Err = templ_7745c5c3_Buffer.WriteString(templ.EscapeString("),
             V(vn), S("))\n")>>)>>
    \o writeErrorHandler(indentLevel)

writeExpressionAttribute(indentLevel, elementName, attr, q) ==
    LET attrKey == HtmlEscapeString(KeyString(attr.Key)) IN
    writeAttributeKey(indentLevel, attr.Key, q)
    \o <<WriteStringLiteral("writeExpressionAttribute", indentLevel, "=\\\"")>>
    \o (IF isExpressionAttributeValueURL(elementName, attrKey)
          THEN writeExpressionAttributeValueURL(indentLevel, attr, q)
        ELSE IF isScriptAttribute(attrKey)
          THEN writeExpressionAttributeValueScript(indentLevel, attr, q)
        ELSE IF attrKey = "style"
          THEN writeExpressionAttributeValueStyle(indentLevel, attr, q)
        ELSE writeExpressionAttributeValueDefault(indentLevel, attr, q))
    \o <<WriteStringLiteral("writeExpressionAttribute", indentLevel, "\\\"")>>

writeSpreadAttributes(indentLevel, attr) ==
    << WriteIndent("writeSpreadAttributes", indentLevel,
         <<S("templ_7745c5c3_Err = templ.RenderAttributes(ctx, templ_7745c5c3_Buffer, ")>>),
       Add(Write("writeSpreadAttributes", ExprText(attr.Expression)), attr.Expression),
       Write("writeSpreadAttributes", <<S(")\n")>>) >>
    \o writeErrorHandler(indentLevel)

writeConditionalAttribute(indentLevel, elementName, attr, q) ==
    << WriteIndent("writeConditionalAttribute", indentLevel, <<S("if ")>>),
       Add(Write("writeConditionalAttribute", ExprText(attr.Expression)), attr.Expression),
       Write("writeConditionalAttribute", <<S(" {\n")>>) >>
    \o writeElementAttributes(indentLevel + 1, elementName, attr.Then, q \o <<1>>)
    \o (IF Len(attr.Else) > 0
        THEN <<WriteIndent("writeConditionalAttribute", indentLevel, <<S("} else {\n")>>)>>
             \o writeElementAttributes(indentLevel + 1, elementName, attr.Else, q \o <<2>>)
        ELSE <<>>)
    \o <<WriteIndent("writeConditionalAttribute", indentLevel, <<S("}\n")>>)>>

\* One round of the loop of writeElementAttributes: err = g.writeXxxAttribute(...).
writeAttribute(indentLevel, name, attr, q) ==
    CASE attr.type = "BoolConstantAttribute" -> writeBoolConstantAttribute(indentLevel, attr, q)
      [] attr.type = "ConstantAttribute" -> writeConstantAttribute(indentLevel, attr, q)
      [] attr.type = "BoolExpressionAttribute" ->
           writeBoolExpressionAttribute(indentLevel, attr, q)
      [] attr.type = "ExpressionAttribute" ->
           writeExpressionAttribute(indentLevel, name, attr, q)
      [] attr.type = "SpreadAttributes" -> writeSpreadAttributes(indentLevel, attr)
      [] attr.type = "ConditionalAttribute" ->
           writeConditionalAttribute(indentLevel, name, attr, q)
      [] OTHER -> <<ReturnError("writeElementAttributes", "unknown attribute type")>>

\* The end of one round of the loop: err holds what the round's call returned,
\* and the loop goes on to the next attribute whatever it holds.
EndOfRound == [Step EXCEPT !.op = "attrEnd", !.fn = "writeElementAttributes", !.catch = TRUE]

\* The return after the loop: the err of the last round.
ReturnErr == [Step EXCEPT !.op = "attrsEnd", !.fn = "writeElementAttributes"]

writeElementAttributes(indentLevel, name, attrs, apath) ==
    IF Len(attrs) = 0 THEN <<>>
    ELSE Concat([k \in 1..Len(attrs) |->
                   Catch(writeAttribute(indentLevel, name, attrs[k], apath \o <<k>>),
                         EndOfRound)])
         \o <<ReturnErr>>

\* writeElement skipping children and closing tag for every void element.
writeElement_VoidSkips(indentLevel, n, path) ==
    (IF Len(n.Attributes) = 0
     THEN <<WriteStringLiteral("writeElement", indentLevel,
                               "<" \o HtmlEscapeString(n.Name) \o ">")>>
     ELSE LET attrs == rewriteAttributesCSS(n.Attributes, path \o <<0>>) IN
          writeElementCSS(indentLevel, n.Attributes, path \o <<0>>)
          \o writeElementScript(indentLevel, attrs)
          \o <<WriteStringLiteral("writeElement", indentLevel,
                                  "<" \o HtmlEscapeString(n.Name))>>
          \o writeElementAttributes(indentLevel, n.Name, attrs, path \o <<0>>)
          \o <<WriteStringLiteral("writeElement", indentLevel, ">")>>)
    \o
    (IF IsVoidElement(n) THEN <<>>
     ELSE writeNodes(indentLevel, stripWhitespace(n.Children), NilNode, path)
          \o <<WriteStringLiteral("writeElement", indentLevel,
                                  "</" \o HtmlEscapeString(n.Name) \o ">")>>)

writeElement(indentLevel, n, path) ==
    (IF Len(n.Attributes) = 0
     THEN <<WriteStringLiteral("writeElement", indentLevel,
                               "<" \o HtmlEscapeString(n.Name) \o ">")>>
     ELSE LET attrs == rewriteAttributesCSS(n.Attributes, path \o <<0>>) IN
          writeElementCSS(indentLevel, n.Attributes, path \o <<0>>)
          \o writeElementScript(indentLevel, attrs)
          \o <<WriteStringLiteral("writeElement", indentLevel,
                                  "<" \o HtmlEscapeString(n.Name))>>
          \o writeElementAttributes(indentLevel, n.Name, attrs, path \o <<0>>)
          \o <<WriteStringLiteral("writeElement", indentLevel, ">")>>)
    \o
    (IF IsVoidElement(n) /\ Len(n.Children) = 0 THEN <<>>
     ELSE writeNodes(indentLevel, stripWhitespace(n.Children), NilNode, path)
          \o <<WriteStringLiteral("writeElement", indentLevel,
                                  "</" \o HtmlEscapeString(n.Name) \o ">")>>)

writeRawElement(indentLevel, n, path) ==
    (IF Len(n.Attributes) = 0
     THEN <<WriteStringLiteral("writeRawElement", indentLevel,
                               "<" \o HtmlEscapeString(n.Name) \o ">")>>
     ELSE writeElementScript(indentLevel, n.Attributes)
          \o <<WriteStringLiteral("writeRawElement", indentLevel,
                                  "<" \o HtmlEscapeString(n.Name))>>
          \o writeElementAttributes(indentLevel, n.Name, n.Attributes, path \o <<0>>)
          \o <<WriteStringLiteral("writeRawElement", indentLevel, ">")>>)
    \o writeText(indentLevel, n.Contents)
    \o <<WriteStringLiteral("writeRawElement", indentLevel,
                            "</" \o HtmlEscapeString(n.Name) \o ">")>>

writeScriptContents(indentLevel, c, path) ==
    IF c.hasValue
    THEN (IF c.Value = "" THEN <<>> ELSE writeText(indentLevel, c.Value))
    ELSE IF c.hasGoCode
    THEN LET vn == <<path, "vn">>
             fnCall == IF c.InsideStringLiteral
                       THEN "templruntime.ScriptContentInsideStringLiteral"
                       ELSE "templruntime.ScriptContentOutsideStringLiteral"
         IN
         << CreateVariableName("writeScriptContents", vn),
            WriteIndent("writeScriptContents", indentLevel,
              <<V(vn), S(", templ_7745c5c3_Err := " \o fnCall \o "(")>>),
            Add(Write("writeScriptContents", <<X(c.GoCode.Expression)>>), c.GoCode.Expression),
            Write("writeScriptContents", <<S(")\n")>>) >>
         \o writeExpressionErrorHandler(indentLevel, c.GoCode.Expression)
         \o <<WriteIndent("writeScriptContents", indentLevel,
                <<S("_, templ_7745c5c3_Err = templ_7745c5c3_Buffer.WriteString("),
                  V(vn), S(")\n")>>)>>
         \o writeErrorHandler(indentLevel)
         \o (IF c.GoCode.TrailingSpace # ""
             THEN writeText(indentLevel, c.GoCode.TrailingSpace)
             ELSE <<>>)
    ELSE <<ReturnError("writeScriptContents", "unknown script content")>>

writeScriptElement(indentLevel, n, path) ==
    (IF Len(n.Attributes) = 0
     THEN <<WriteStringLiteral("writeScriptElement", indentLevel, "<script>")>>
     ELSE writeElementScript(indentLevel, n.Attributes)
          \o <<WriteStringLiteral("writeScriptElement", indentLevel, "<script")>>
          \o writeElementAttributes(indentLevel, "script", n.Attributes, path \o <<0>>)
          \o <<WriteStringLiteral("writeScriptElement", indentLevel, ">")>>)
    \o Concat([k \in 1..Len(n.Contents) |->
                 writeScriptContents(indentLevel, n.Contents[k], path \o <<k>>)])
    \o <<WriteStringLiteral("writeScriptElement", indentLevel, "</script>")>>

----------------------------------------------------------------------------
(* The generator: node dispatch and the whole file.                        *)

\* The switch of writeNode.
writeNodeSwitch(indentLevel, n, next_, path) ==
    CASE n.type = "DocType" -> writeDocType(indentLevel, n)
      [] n.type = "Element" -> writeElement(indentLevel, n, path)
      [] n.type = "HTMLComment" -> writeComment(indentLevel, n)
      [] n.type = "ChildrenExpression" -> writeChildrenExpression(indentLevel)
      [] n.type = "RawElement" -> writeRawElement(indentLevel, n, path)
      [] n.type = "ScriptElement" -> writeScriptElement(indentLevel, n, path)
      [] n.type = "ForExpression" -> writeForExpression(indentLevel, n, next_, path)
      [] n.type = "CallTemplateExpression" -> writeCallTemplateExpression(indentLevel, n)
      [] n.type = "TemplElementExpression" -> writeTemplElementExpression(indentLevel, n, path)
      [] n.type = "IfExpression" -> writeIfExpression(indentLevel, n, next_, path)
      [] n.type = "SwitchExpression" -> writeSwitchExpression(indentLevel, n, next_, path)
      [] n.type = "StringExpression" -> writeStringExpression(indentLevel, n.Expression, path)
      [] n.type = "GoCode" -> writeGoCode(indentLevel, n.Expression)
      [] n.type = "Whitespace" -> writeWhitespace(indentLevel, n)
      [] n.type = "Text" -> writeText(indentLevel, n.Value)
      [] OTHER -> <<ReturnError("writeNode", "unhandled type")>>

\* writeNode: a GoComment and an unhandled type return at once; every other node
\* goes on to the trailing whitespace, also when its writer returned an error,
\* and returns that error after it.
writeNode(indentLevel, current, next_, path) ==
    IF current.type = "GoComment" THEN <<>>
    ELSE IF current.type \notin {"DocType", "Element", "HTMLComment", "ChildrenExpression",
                                 "RawElement", "ScriptElement", "ForExpression",
                                 "CallTemplateExpression", "TemplElementExpression",
                                 "IfExpression", "SwitchExpression", "StringExpression",
                                 "GoCode", "Whitespace", "Text"}
    THEN <<ReturnError("writeNode", "unhandled type")>>
    ELSE LET needed  == isInlineOrText(current) /\ isInlineOrText(next_)
             trailer == IF IsWhitespaceTrailer(current) /\ needed
                        THEN writeWhitespaceTrailer(indentLevel, current.TrailingSpace)
                        ELSE <<>>
         IN  IF Len(trailer) = 0
             THEN writeNodeSwitch(indentLevel, current, next_, path)
             ELSE Catch(writeNodeSwitch(indentLevel, current, next_, path),
                        [trailer[1] EXCEPT !.catch = TRUE])

writeNodes(indentLevel, nodes, next_, path) ==
    Concat([i \in 1..Len(nodes) |->
              writeNode(indentLevel, nodes[i],
                        IF i + 1 <= Len(nodes) THEN nodes[i + 1] ELSE next_,
                        path \o <<i>>)])

writeTemplateNodes(tf) ==
    Concat([i \in 1..Len(tf.Nodes) |->
        CASE tf.Nodes[i].type = "TemplateFileGoExpression" -> writeGoExpression(tf.Nodes[i])
          [] tf.Nodes[i].type = "HTMLTemplate" -> writeTemplate(i - 1, tf.Nodes[i], tf, <<i>>)
          [] tf.Nodes[i].type = "CSSTemplate" -> writeCSS(tf.Nodes[i])
          [] tf.Nodes[i].type = "ScriptTemplate" -> writeScript(tf.Nodes[i])
          [] OTHER -> <<ReturnError("writeTemplateNodes", "unknown node type")>>])

\* generate writing the imports before the package declaration.
generate_ImportsFirst(tf, options) ==
    writeCodeGeneratedComment(options)
    \o writeVersionComment(options)
    \o writeGeneratedDateComment(options)
    \o writeHeader(tf)
    \o writeImports
    \o writePackage(tf)
    \o writeTemplateNodes(tf)
    \o writeBlankAssignmentForRuntimeImport

\* generator.generate: the steps of one generation, in order.
generate(tf, options) ==
    writeCodeGeneratedComment(options)
    \o writeVersionComment(options)
    \o writeGeneratedDateComment(options)
    \o writeHeader(tf)
    \o writePackage(tf)
    \o writeImports
    \o writeTemplateNodes(tf)
    \o writeBlankAssignmentForRuntimeImport

----------------------------------------------------------------------------
(* Template files given to Generate: the values the parser builds.         *)

ConstantAttributeKey(name) == [type |-> "ConstantAttributeKey", Name |-> name]

Element(name, attrs, children, trailing) ==
    [type |-> "Element", Name |-> name, Attributes |-> attrs, Children |-> children,
     TrailingSpace |-> trailing]

Text(value, trailing) == [type |-> "Text", Value |-> value, TrailingSpace |-> trailing]

StringExpression(e, trailing) ==
    [type |-> "StringExpression", Expression |-> e, TrailingSpace |-> trailing]

TemplateFileGoExpression(e) ==
    [type |-> "TemplateFileGoExpression", Nil |-> FALSE, Expression |-> e]

HTMLTemplate(e, children, from, to) ==
    [type |-> "HTMLTemplate", Nil |-> FALSE, Expression |-> e, Children |-> children,
     Range |-> [From |-> from, To |-> to]]

TemplateFile(header, nodes) ==
    [Header |-> header, Package |-> [Expression |-> Expression("package main", 0, 0, 0)],
     Nodes |-> nodes]

\* GeneratorOptions: the value before any GenerateOpt is applied.
NoOptions == [Version |-> "", FileName |-> "", SkipCodeGeneratedComment |-> FALSE,
              GeneratedDate |-> ""]

\* templ Button(h templ.ComponentScript) { <button onclick={ h } disabled>Go</button> }
ButtonFile ==
    TemplateFile(<<>>, <<
      HTMLTemplate(Expression("Button(h templ.ComponentScript)", 20, 2, 6), <<
        [type |-> "Whitespace", Value |-> "\n\t"],
        Element("button",
                <<[type |-> "ExpressionAttribute", Key |-> ConstantAttributeKey("onclick"),
                   Expression |-> Expression("h", 72, 3, 19)],
                  [type |-> "BoolConstantAttribute", Key |-> ConstantAttributeKey("disabled")]>>,
                <<Text("Go", SpaceNone)>>, SpaceVertical)
      >>, Pos(14, 2, 0), Pos(101, 4, 1))
    >>)

\* templ Greeting(p Person) { <p>Hello, { p.FIELD } <b>!</b><br></p> }
GreetingFile(field) ==
    TemplateFile(<<>>, <<
      HTMLTemplate(Expression("Greeting(p Person)", 20, 2, 6), <<
        Element("p", <<>>,
                <<Text("Hello,", SpaceHorizontal),
                  StringExpression(Expression("p." \o field, 54, 3, 14), SpaceVertical),
                  Element("b", <<>>, <<Text("!", SpaceNone)>>, SpaceNone),
                  Element("br", <<>>, <<>>, SpaceNone)>>,
                SpaceVertical)
      >>, Pos(14, 2, 0), Pos(75, 4, 1))
    >>)

\* A header and a pass-through block that end in a line comment, a pass-through
\* block that does not, a css, a script and an html template.
DeclarationsFile ==
    [TemplateFile(<<>>, <<
      TemplateFileGoExpression(Expression("import \"strings\"\n// helpers", 41, 3, 0)),
      TemplateFileGoExpression(Expression("var x = 1", 70, 6, 0)),
      [type |-> "CSSTemplate", Nil |-> FALSE, Name |-> "red",
       Expression |-> Expression("red()", 85, 8, 4),
       Properties |-> <<[type |-> "ConstantCSSProperty", Name |-> "color", Value |-> "red"],
                        [type |-> "ExpressionCSSProperty", Name |-> "width",
                         Value |-> [Expression |-> Expression("w", 120, 10, 11)]]>>,
       Range |-> [From |-> Pos(81, 8, 0), To |-> Pos(126, 11, 1)]],
      [type |-> "ScriptTemplate", Nil |-> FALSE,
       Name |-> Expression("log", 135, 13, 7),
       Parameters |-> Expression("a string", 139, 13, 11),
       Value |-> "\n\tconsole.log(a)\n",
       Range |-> [From |-> Pos(128, 13, 0), To |-> Pos(169, 15, 1)]],
      HTMLTemplate(Expression("Card()", 177, 17, 6), <<
        Element("span",
                <<[type |-> "ExpressionAttribute", Key |-> ConstantAttributeKey("class"),
                   Expression |-> Expression("red()", 202, 18, 15)]>>,
                <<>>, SpaceNone)
      >>, Pos(171, 17, 0), Pos(220, 19, 1))
    >>) EXCEPT !.Header = <<TemplateFileGoExpression(
                               Expression("// Code owner: web\n//go:build !js", 0, 0, 0))>>,
               !.Package = [Expression |-> Expression("package main", 28, 2, 0)]]

\* templ Dot() { .<br><hr><b>x</b></hr><wbr> </wbr> } and then css blue() { color: blue; }.
\* The void elements hr and wbr carry children.
StylesFile ==
    LET dot  == HTMLTemplate(Expression("Dot()", 20, 2, 6),
                             <<Text(".", SpaceNone),
                               Element("br", <<>>, <<>>, SpaceNone),
                               Element("hr", <<>>,
                                       <<Element("b", <<>>, <<Text("x", SpaceNone)>>, SpaceNone)>>,
                                       SpaceNone),
                               Element("wbr", <<>>, <<[type |-> "Whitespace", Value |-> " "]>>,
                                       SpaceNone)>>,
                             Pos(14, 2, 0), Pos(31, 4, 1))
        blue == [type |-> "CSSTemplate", Nil |-> FALSE, Name |-> "blue",
                 Expression |-> Expression("blue()", 37, 6, 4),
                 Properties |-> <<[type |-> "ConstantCSSProperty", Name |-> "color",
                                   Value |-> "blue"]>>,
                 Range |-> [From |-> Pos(33, 6, 0), To |-> Pos(62, 8, 1)]]
    IN  TemplateFile(<<>>, <<dot, blue>>)

\* Every kind of node an html template can hold.
NodesFile ==
    TemplateFile(<<>>, <<
      HTMLTemplate(Expression("Page(items []string)", 20, 2, 6), <<
        [type |-> "DocType", Value |-> "html"],
        [type |-> "HTMLComment", Contents |-> " page "],
        [type |-> "GoComment"],
        [type |-> "GoCode", Expression |-> Expression("count := len(items)", 70, 5, 4)],
        [type |-> "IfExpression", Expression |-> Expression("count == 0", 93, 6, 4),
         Then |-> <<[type |-> "Whitespace", Value |-> "\n\t\t"], Text("none", SpaceVertical)>>,
         ElseIfs |-> <<[Expression |-> Expression("count == 1", 120, 8, 11),
                        Then |-> <<Text("one", SpaceVertical)>>]>>,
         Else |-> <<Text("many", SpaceVertical)>>],
        [type |-> "ForExpression", Expression |-> Expression("_, item := range items", 160, 13, 5),
         Children |-> <<StringExpression(Expression("item", 190, 14, 4), SpaceVertical),
                        Element("em", <<>>, <<>>, SpaceNone)>>],
        [type |-> "SwitchExpression", Expression |-> Expression("count", 210, 16, 8),
         Cases |-> <<[Expression |-> Expression("case 0:\n", 215, 17, 1),
                      Children |-> <<Text("zero", SpaceVertical)>>],
                     [Expression |-> Expression("default:\n", 232, 19, 1),
                      Children |-> <<>>]>>],
        Text("end", SpaceNone),
        [type |-> "CallTemplateExpression", Expression |-> Expression("Footer()", 250, 22, 2)],
        [type |-> "TemplElementExpression", Expression |-> Expression("Icon()", 262, 23, 2),
         Children |-> <<>>],
        [type |-> "TemplElementExpression", Expression |-> Expression("Box()", 272, 24, 2),
         Children |-> <<[type |-> "Whitespace", Value |-> " "],
                        [type |-> "ChildrenExpression"],
                        [type |-> "Whitespace", Value |-> "\n\t"],
                        Text("!", SpaceNone),
                        [type |-> "Whitespace", Value |-> " "]>>],
        [type |-> "RawElement", Name |-> "style", Attributes |-> <<>>, Contents |-> "p{}"],
        [type |-> "RawElement", Name |-> "style",
         Attributes |-> <<[type |-> "ConstantAttribute", Key |-> ConstantAttributeKey("media"),
                           Value |-> "print", SingleQuote |-> TRUE]>>,
         Contents |-> ""],
        [type |-> "ScriptElement", Attributes |-> <<>>,
         Contents |-> <<[hasValue |-> TRUE, Value |-> "let n = ", hasGoCode |-> FALSE],
                        [hasValue |-> FALSE, hasGoCode |-> TRUE,
                         GoCode |-> [Expression |-> Expression("count", 330, 28, 12),
                                     TrailingSpace |-> SpaceVertical],
                         InsideStringLiteral |-> FALSE],
                        [hasValue |-> TRUE, Value |-> "", hasGoCode |-> FALSE]>>],
        [type |-> "ScriptElement",
         Attributes |-> <<[type |-> "BoolConstantAttribute",
                           Key |-> ConstantAttributeKey("defer")]>>,
         Contents |-> <<[hasValue |-> FALSE, hasGoCode |-> TRUE,
                         GoCode |-> [Expression |-> Expression("label", 360, 30, 10),
                                     TrailingSpace |-> SpaceNone],
                         InsideStringLiteral |-> TRUE]>>]
      >>, Pos(14, 2, 0), Pos(380, 32, 1))
    >>)

\* templ Link(...) { <a ATTRS></a> }
AttributesFile(attrs) ==
    TemplateFile(<<>>, <<
      HTMLTemplate(Expression("Link(u string)", 20, 2, 6), <<
        Element("a", attrs, <<>>, SpaceNone)
      >>, Pos(14, 2, 0), Pos(120, 6, 1))
    >>)

UrlAndStyle ==
    <<[type |-> "ExpressionAttribute", Key |-> ConstantAttributeKey("href"),
       Expression |-> Expression("templ.URL(u)", 46, 3, 11)],
      [type |-> "ExpressionAttribute", Key |-> ConstantAttributeKey("style"),
       Expression |-> Expression("look", 69, 3, 34)]>>

KeyAndBool ==
    <<[type |-> "ExpressionAttribute",
       Key |-> [type |-> "ExpressionAttributeKey", Expression |-> Expression("k", 42, 3, 7)],
       Expression |-> Expression("v", 48, 3, 13)],
      [type |-> "BoolExpressionAttribute", Key |-> ConstantAttributeKey("hidden"),
       Expression |-> Expression("off", 61, 3, 26)]>>

SpreadAndConditional ==
    <<[type |-> "SpreadAttributes", Expression |-> Expression("attrs", 42, 3, 7)],
      [type |-> "ConditionalAttribute", Expression |-> Expression("big", 56, 4, 5),
       Then |-> <<[type |-> "ExpressionAttribute", Key |-> ConstantAttributeKey("class"),
                   Expression |-> Expression("flag", 72, 5, 11)],
                  [type |-> "ExpressionAttribute", Key |-> ConstantAttributeKey("onclick"),
                   Expression |-> Expression("log(s)", 84, 5, 23)]>>,
       Else |-> <<[type |-> "ConstantAttribute", Key |-> ConstantAttributeKey("id"),
                   Value |-> "small", SingleQuote |-> FALSE]>>]>>

\* An element whose first attribute is of a type the generator does not know.
UnknownAttributeFile ==
    TemplateFile(<<>>, <<
      HTMLTemplate(Expression("Odd()", 20, 2, 6), <<
        Element("div",
                <<[type |-> "UnknownAttribute"],
                  [type |-> "ConstantAttribute", Key |-> ConstantAttributeKey("id"),
                   Value |-> "a", SingleQuote |-> FALSE]>>,
                <<>>, SpaceNone)
      >>, Pos(14, 2, 0), Pos(50, 4, 1))
    >>)

\* Values the generator rejects: a node of an unknown type, a nil declaration,
\* an attribute key, a css property and a script content of an unknown type.
UnknownNodeFile(n) == TemplateFile(<<>>, <<n>>)

UnknownChildFile(n) ==
    TemplateFile(<<>>, <<HTMLTemplate(Expression("Odd()", 20, 2, 6),
                                     <<Text("a", SpaceHorizontal), n, Text("b", SpaceNone)>>,
                                     Pos(14, 2, 0), Pos(50, 4, 1))>>)

\* The template files and the options Generate is called with.
Files ==
    << [tf |-> ButtonFile, options |-> NoOptions],
       [tf |-> ButtonFile, options |-> [NoOptions EXCEPT !.Version = "v0.3.1"]],
       [tf |-> ButtonFile, options |-> [NoOptions EXCEPT !.FileName = "button.templ"]],
       [tf |-> ButtonFile, options |-> [NoOptions EXCEPT !.SkipCodeGeneratedComment = TRUE]],
       [tf |-> ButtonFile, options |-> [NoOptions EXCEPT !.GeneratedDate = "2024-01-02T03:04:05Z"]],
       [tf |-> GreetingFile("Name"), options |-> [NoOptions EXCEPT !.FileName = "a" \o BT \o ".templ"]],
       [tf |-> GreetingFile("Nick"), options |-> [NoOptions EXCEPT !.FileName = "a" \o BT \o ".templ"]],
       [tf |-> DeclarationsFile, options |-> NoOptions],
       [tf |-> NodesFile, options |-> NoOptions],
       [tf |-> AttributesFile(UrlAndStyle), options |-> NoOptions],
       [tf |-> AttributesFile(KeyAndBool), options |-> NoOptions],
       [tf |-> AttributesFile(SpreadAndConditional), options |-> NoOptions],
       [tf |-> UnknownAttributeFile, options |-> NoOptions],
       [tf |-> UnknownNodeFile([type |-> "UnknownNode"]), options |-> NoOptions],
       [tf |-> UnknownNodeFile([type |-> "CSSTemplate", Nil |-> TRUE]), options |-> NoOptions],
       [tf |-> UnknownChildFile([type |-> "UnknownNode"]), options |-> NoOptions],
       [tf |-> UnknownChildFile(
                 Element("i", <<[type |-> "BoolConstantAttribute",
                                 Key |-> [type |-> "UnknownKey"]]>>, <<>>, SpaceHorizontal)),
        options |-> NoOptions],
       [tf |-> UnknownChildFile(
                 [type |-> "ScriptElement", Attributes |-> <<>>,
                  Contents |-> <<[hasValue |-> FALSE, hasGoCode |-> FALSE]>>]),
        options |-> NoOptions],
       [tf |-> StylesFile, options |-> NoOptions] >>

\* The steps generate performs for each of the files.
Programs == [i \in 1..Len(Files) |-> generate(Files[i].tf, Files[i].options)]

----------------------------------------------------------------------------
(* Running the generator: one step at a time against the output sink.      *)

\* The nil error, the error of a rejected write (n: which write attempt it
\* was), and an error made by errors.New / fmt.Errorf.
NoErr == [kind |-> "nil", n |-> 0, msg |-> ""]
WriteErr(n) == [kind |-> "io", n |-> n, msg |-> ""]
NewErr(msg) == [kind |-> "new", n |-> 0, msg |-> msg]

\* A nil *parser.SourceMap, and parser.NewSourceMap().
NilSourceMap == [isNil |-> TRUE, Expressions |-> <<>>, SymbolRanges |-> <<>>]
NewSourceMap == [isNil |-> FALSE, Expressions |-> <<>>, SymbolRanges |-> <<>>]

\* NewRangeWriter(w).
NewRangeWriter == [Current |-> ZeroPos, Literals |-> <<>>]

\* The zero value of GeneratorOutput: what Generate returns beside an error.
ZeroOutput == [Options |-> NoOptions, SourceMap |-> NilSourceMap, Literals |-> <<>>]

NotReturned == [done |-> FALSE, err |-> NoErr, op |-> ZeroOutput]

\* The generator Generate constructs, about to call g.generate().
NewGenerator ==
    [pc |-> 1, w |-> NewRangeWriter, sink |-> <<>>, sourceMap |-> NewSourceMap,
     variableID |-> 0, childrenVar |-> "", names |-> <<>>, tgtSymbolRange |-> ZeroRange,
     err |-> NoErr, unwinding |-> FALSE, rejects |-> 0, log |-> <<>>, ret |-> NotReturned]

\* The string a write passes to the RangeWriter.
Resolve(text, g, options) ==
    LET piece(p) == CASE p.t = "s" -> p.s
                      [] p.t = "e" -> p.e.Value
                      [] p.t = "v" -> g.names[p.slot]
                      [] p.t = "c" -> g.childrenVar
                      [] OTHER -> createGoString(options.FileName)
        F[i \in 0..Len(text)] == IF i = 0 THEN "" ELSE F[i - 1] \o piece(text[i])
    IN  F[Len(text)]

\* The step fails with the error e: control continues at the caller that does
\* not return at once, or Generate returns e and the zero GeneratorOutput.
FailTo(g, st, e) ==
    IF st.h = 0
    THEN [g EXCEPT !.err = e, !.unwinding = FALSE,
                   !.ret = [done |-> TRUE, err |-> e, op |-> ZeroOutput]]
    ELSE [g EXCEPT !.pc = g.pc + st.h, !.err = e, !.unwinding = TRUE]

\* A step that did not fail: the next step follows, unless the step is the
\* trailing whitespace written after a node that failed; then the node's error
\* is returned.
Continue(g0, g, st) ==
    IF g0.unwinding THEN FailTo([g EXCEPT !.unwinding = FALSE], st, g0.err)
    ELSE [g EXCEPT !.pc = g0.pc + 1]

\* RangeWriter.Write and what the caller does with the range it returns.
DoWrite(g, st, options, accepted) ==
    LET text == Resolve(st.text, g, options)
        r    == [From |-> g.w.Current, To |-> Advance(g.w.Current, text)]
        tgt  == [From |-> IF st.symFrom THEN r.From ELSE g.tgtSymbolRange.From,
                 To   |-> IF st.symAdd THEN r.To ELSE g.tgtSymbolRange.To]
        entry(ok) == [op |-> "write", fn |-> st.fn, text |-> text, ok |-> ok,
                      lit |-> st.lit, r |-> IF ok THEN r ELSE ZeroRange,
                      exprs |-> {st.text[j].e : j \in
                                   {i \in 1..Len(st.text) : st.text[i].t = "e"}}]
    IN  IF accepted
        THEN Continue(g,
               [g EXCEPT !.sink = Append(@, text),
                         !.w = [Current  |-> r.To,
                                Literals |-> IF st.lit THEN Append(@.Literals, st.literal)
                                             ELSE @.Literals],
                         !.sourceMap.Expressions =
                             IF st.add THEN Append(@, [src |-> st.expr.Range, dst |-> r])
                             ELSE @,
                         !.sourceMap.SymbolRanges =
                             IF st.symAdd THEN Append(@, [src |-> st.symSrc, dst |-> tgt])
                             ELSE @,
                         !.tgtSymbolRange = tgt,
                         !.log = Append(@, entry(TRUE))],
               st)
        ELSE FailTo([g EXCEPT !.rejects = @ + 1, !.log = Append(@, entry(FALSE))],
                    st, WriteErr(Len(g.log) + 1))

\* createVariableName with a counter that starts again in every template.
DoCreateVariableName_PerTemplate(g, st) ==
    LET id   == IF st.setChildren THEN 1 ELSE g.variableID + 1
        name == "templ_7745c5c3_Var" \o Itoa(id)
    IN  [g EXCEPT !.variableID = id,
                  !.names = [s \in DOMAIN g.names \cup {st.slot} |->
                               IF s = st.slot THEN name ELSE g.names[s]],
                  !.childrenVar = IF st.setChildren THEN name ELSE @,
                  !.pc = g.pc + 1]

\* g.createVariableName(), assigned to a local variable (and to g.childrenVar).
DoCreateVariableName(g, st) ==
    LET id   == g.variableID + 1
        name == "templ_7745c5c3_Var" \o Itoa(id)
    IN  [g EXCEPT !.variableID = id,
                  !.names = [s \in DOMAIN g.names \cup {st.slot} |->
                               IF s = st.slot THEN name ELSE g.names[s]],
                  !.childrenVar = IF st.setChildren THEN name ELSE @,
                  !.pc = g.pc + 1]

\* return errors.New(...) / fmt.Errorf(...).
DoReturnError(g, st) ==
    FailTo([g EXCEPT !.log = Append(@, [op |-> "fail", fn |-> st.fn, text |-> st.msg,
                                        ok |-> FALSE, lit |-> FALSE, r |-> ZeroRange,
                                        exprs |-> {}])],
           st, NewErr(st.msg))

\* writeElementAttributes: err = <what the attribute's writer returned>, and on
\* to the next attribute.
DoEndOfRound(g) ==
    [g EXCEPT !.err = IF g.unwinding THEN g.err ELSE NoErr,
              !.unwinding = FALSE,
              !.pc = g.pc + 1]

\* writeElementAttributes: return err.
DoReturnErr(g, st) ==
    IF g.err # NoErr THEN FailTo(g, st, g.err) ELSE [g EXCEPT !.pc = g.pc + 1]

\* Generate after generate() returned nil: the output it hands back.
DoReturn(g, options) ==
    [g EXCEPT !.ret = [done |-> TRUE, err |-> NoErr,
                       op |-> [Options |-> options, SourceMap |-> g.sourceMap,
                               Literals |-> g.w.Literals]]]

\* One step of the generator on a sink that accepts every write.
Exec(g, prog, options) ==
    IF g.pc > Len(prog) THEN DoReturn(g, options)
    ELSE LET st == prog[g.pc] IN
         CASE st.op = "write"    -> DoWrite(g, st, options, TRUE)
           [] st.op = "newvar"   -> DoCreateVariableName(g, st)
           [] st.op = "fail"     -> DoReturnError(g, st)
           [] st.op = "attrEnd"  -> DoEndOfRound(g)
           [] OTHER              -> DoReturnErr(g, st)

\* One step of a generator that has not returned; a generator that has
\* returned stays as it is.
RunStep(g, prog, options) == IF g.ret.done THEN g ELSE Exec(g, prog, options)

\* n steps.
RECURSIVE RunFor(_, _, _, _)
RunFor(g, prog, options, n) ==
    IF n = 0 THEN g ELSE RunFor(RunStep(g, prog, options), prog, options, n - 1)

\* Steps are taken in blocks to keep the evaluation of a long program shallow.
RECURSIVE Run(_, _, _)
Run(g, prog, options) ==
    IF g.ret.done THEN g ELSE Run(RunFor(g, prog, options, 16), prog, options)

\* Generate(template, w, opts...) on a sink that accepts every write: (op, err).
Generate(i) == Run(NewGenerator, Programs[i], Files[i].options).ret

\* What Generate returns for each of the files when no write is rejected.
Outputs == [i \in 1..Len(Files) |-> Generate(i)]

\* The generator as the state holds it.
G == [pc |-> pc, w |-> w, sink |-> sink, sourceMap |-> sourceMap,
      variableID |-> variableID, childrenVar |-> childrenVar, names |-> names,
      tgtSymbolRange |-> tgtSymbolRange, err |-> err, unwinding |-> unwinding,
      rejects |-> rejects, log |-> log, ret |-> ret]

Becomes(g) ==
    /\ pc' = g.pc
    /\ w' = g.w
    /\ sink' = g.sink
    /\ sourceMap' = g.sourceMap
    /\ variableID' = g.variableID
    /\ childrenVar' = g.childrenVar
    /\ names' = g.names
    /\ tgtSymbolRange' = g.tgtSymbolRange
    /\ err' = g.err
    /\ unwinding' = g.unwinding
    /\ rejects' = g.rejects
    /\ log' = g.log
    /\ ret' = g.ret
    /\ UNCHANGED <<file, program, cmpVars, parseVars, emitVars>>

Prog == program
Options == Files[file].options
Running == file \in 1..Len(Files) /\ ~ret.done
AtStep(op) == Running /\ pc <= Len(Prog) /\ Prog[pc].op = op

\* The sink accepts the write.
WriteAccepted == AtStep("write") /\ Becomes(DoWrite(G, Prog[pc], Options, TRUE))

\* The sink rejects the write.
WriteRejected ==
    /\ AtStep("write")
    /\ rejects < MaxRejects
    /\ Becomes(DoWrite(G, Prog[pc], Options, FALSE))

\* createVariableName with a counter that may skip a number.
CreateVariableNameStep_Arbitrary ==
    /\ AtStep("newvar")
    /\ \E skip \in {0, 1} :
          Becomes(DoCreateVariableName([G EXCEPT !.variableID = variableID + skip], Prog[pc]))

CreateVariableNameStep == AtStep("newvar") /\ Becomes(DoCreateVariableName(G, Prog[pc]))

ReturnErrorStep == AtStep("fail") /\ Becomes(DoReturnError(G, Prog[pc]))

EndOfRoundStep == AtStep("attrEnd") /\ Becomes(DoEndOfRound(G))

ReturnErrStep == AtStep("attrsEnd") /\ Becomes(DoReturnErr(G, Prog[pc]))

GenerateReturns == Running /\ pc > Len(Prog) /\ Becomes(DoReturn(G, Options))

Idle == "-"

\* No writer is called on its own, and nothing was emitted by one.
NoCall == [fn |-> "none"]
NotEmitted == [done |-> FALSE, err |-> NoErr, sink |-> <<>>, log |-> <<>>, literals |-> <<>>,
               sourceMap |-> NewSourceMap, ids |-> 0, names |-> <<>>]

\* Parse has not been called.
NotParsed == [done |-> FALSE, n |-> NilNode, matched |-> FALSE, err |-> NoErr, index |-> 0]

Init ==
    /\ file \in 1..Len(Files)
    /\ program = Programs[file]
    /\ pc = 1
    /\ w = NewRangeWriter
    /\ sink = <<>>
    /\ sourceMap = NewSourceMap
    /\ variableID = 0
    /\ childrenVar = ""
    /\ names = <<>>
    /\ tgtSymbolRange = ZeroRange
    /\ err = NoErr
    /\ unwinding = FALSE
    /\ rejects = 0
    /\ log = <<>>
    /\ ret = NotReturned
    /\ prev = ZeroOutput
    /\ next = ZeroOutput
    /\ goChanged = Idle
    /\ textChanged = Idle
    /\ tokens = <<>>
    /\ braceErr = FALSE
    /\ parsed = NotParsed
    /\ call = NoCall
    /\ emitted = NotEmitted

Next ==
    \/ WriteAccepted
    \/ WriteRejected
    \/ CreateVariableNameStep
    \/ ReturnErrorStep
    \/ EndOfRoundStep
    \/ ReturnErrStep
    \/ GenerateReturns

Spec == Init /\ [][Next]_vars

----------------------------------------------------------------------------
(* Change detection: HasGoChanged and HasTextChanged.                      *)

\* The outcome of a call: "true", "false", or "panic" when the call
\* dereferences a nil pointer.
HasGoChanged(previous, updated) ==
    IF previous.Options.Version # updated.Options.Version THEN "true"
    ELSE IF previous.Options.FileName # updated.Options.FileName THEN "true"
    ELSE IF previous.Options.SkipCodeGeneratedComment
              # updated.Options.SkipCodeGeneratedComment THEN "true"
    ELSE IF Len(previous.Literals) # Len(updated.Literals) THEN "true"
    ELSE IF previous.SourceMap.isNil \/ updated.SourceMap.isNil THEN "panic"
    ELSE IF Len(previous.SourceMap.Expressions) # Len(updated.SourceMap.Expressions)
         THEN "true"
    ELSE IF \E i \in 1..Len(previous.SourceMap.Expressions) :
              previous.SourceMap.Expressions[i] # updated.SourceMap.Expressions[i]
         THEN "true"
    ELSE "false"

\* HasTextChanged without the loop over the literals.
HasTextChanged_LengthOnly(previous, updated) ==
    IF Len(previous.Literals) # Len(updated.Literals) THEN "true" ELSE "false"

HasTextChanged(previous, updated) ==
    IF Len(previous.Literals) # Len(updated.Literals) THEN "true"
    ELSE IF \E i \in 1..Len(previous.Literals) : previous.Literals[i] # updated.Literals[i]
         THEN "true"
    ELSE "false"

\* The sequences over elems of length at most n.
SeqsUpTo(elems, n) == UNION {[1..k -> elems] : k \in 0..n}

\* GeneratorOptions a caller may pass.
OptionSamples ==
    {NoOptions,
     [NoOptions EXCEPT !.Version = "v0.3.1"],
     [NoOptions EXCEPT !.FileName = "button.templ"],
     [NoOptions EXCEPT !.SkipCodeGeneratedComment = TRUE],
     [NoOptions EXCEPT !.GeneratedDate = "2024-01-02T03:04:05Z"]}

\* Entries of a source map.
EntrySamples ==
    {[src |-> SrcRange(0, 0, 0, 12), dst |-> SrcRange(43, 2, 0, 12)],
     [src |-> SrcRange(20, 2, 6, 5), dst |-> SrcRange(231, 9, 5, 5)]}

SourceMapSamples ==
    {NilSourceMap}
    \cup {[isNil |-> FALSE, Expressions |-> es, SymbolRanges |-> srs] :
            es \in SeqsUpTo(EntrySamples, MaxExprs),
            srs \in {<<>>, <<[src |-> SrcRange(14, 2, 0, 30), dst |-> SrcRange(226, 9, 0, 40)]>>}}

\* The GeneratorOutput values change detection is called with: what Generate
\* returned for the files, and values a caller built or read back.
GeneratorOutputs ==
    {Outputs[i].op : i \in 1..Len(Files)}
    \cup {[Options |-> o, SourceMap |-> sm, Literals |-> ls] :
            o \in OptionSamples, sm \in SourceMapSamples,
            ls \in SeqsUpTo({"<p>", "</p>"}, MaxLits)}

InitChange ==
    /\ file = 0
    /\ program = <<>>
    /\ pc = 1
    /\ w = NewRangeWriter
    /\ sink = <<>>
    /\ sourceMap = NewSourceMap
    /\ variableID = 0
    /\ childrenVar = ""
    /\ names = <<>>
    /\ tgtSymbolRange = ZeroRange
    /\ err = NoErr
    /\ unwinding = FALSE
    /\ rejects = 0
    /\ log = <<>>
    /\ ret = NotReturned
    /\ prev \in GeneratorOutputs
    /\ next \in GeneratorOutputs
    /\ goChanged = Idle
    /\ textChanged = Idle
    /\ tokens = <<>>
    /\ braceErr = FALSE
    /\ parsed = NotParsed
    /\ call = NoCall
    /\ emitted = NotEmitted

\* A caller asks whether the Go code changed.
CallHasGoChanged ==
    /\ goChanged = Idle
    /\ textChanged = Idle
    /\ goChanged' = HasGoChanged(prev, next)
    /\ UNCHANGED <<genVars, parseVars, emitVars, prev, next, textChanged>>

\* A caller asks whether the text changed.
CallHasTextChanged ==
    /\ goChanged = Idle
    /\ textChanged = Idle
    /\ textChanged' = HasTextChanged(prev, next)
    /\ UNCHANGED <<genVars, parseVars, emitVars, prev, next, goChanged>>

NextChange == CallHasGoChanged \/ CallHasTextChanged

SpecChange == InitChange /\ [][NextChange]_vars

----------------------------------------------------------------------------
(* The template-element parser: templElementExpressionParser.Parse.       *)

\* What the input holds, token by token: the prefix, a template expression,
\* the braces (with their padding) and text.
Tokens == {"@", "Foo()", "{", "}", "text"}

\* A parse.Input: the tokens and the number of them already consumed.
NewInput(ts) == [tokens |-> ts, index |-> 0]

NextToken(pi) == IF pi.index < Len(pi.tokens) THEN pi.tokens[pi.index + 1] ELSE "EOF"

\* parse.Error(msg, pos).
ParseError(msg, pos) == [kind |-> "parse", n |-> pos, msg |-> msg]

\* A parser of one token (parse.Rune, parse.String): it consumes the token
\* when it matches and leaves the input alone when it does not.
ParseToken(t, pi) ==
    IF NextToken(pi) = t
    THEN [matched |-> TRUE, err |-> NoErr, pi |-> [pi EXCEPT !.index = @ + 1]]
    ELSE [matched |-> FALSE, err |-> NoErr, pi |-> pi]

\* parseGo("templ element", pi, goexpression.TemplExpression).
parseGo(pi) ==
    IF NextToken(pi) = "Foo()"
    THEN [Expression |-> Expression("Foo()", pi.index, 0, pi.index), err |-> NoErr,
          pi |-> [pi EXCEPT !.index = @ + 1]]
    ELSE [Expression |-> NoExpr,
          err |-> ParseError("templ element: invalid go expression", pi.index), pi |-> pi]

\* openBraceWithOptionalPadding.Parse(pi); fails says whether it reports an error.
openBraceWithOptionalPadding(pi, fails) ==
    IF fails THEN [matched |-> FALSE, err |-> ParseError("open brace", pi.index), pi |-> pi]
    ELSE ParseToken("{", pi)

\* closeBraceWithOptionalPadding.Parse(pi).
closeBraceWithOptionalPadding(pi) == ParseToken("}", pi)

RECURSIVE Parse(_, _)
RECURSIVE templateNodeParser(_, _, _)

\* newTemplateNodeParser(closeBraceWithOptionalPadding, ...).Parse(pi): the
\* nodes up to the closing brace, which is left in the input, or up to the end
\* of the input. nodes holds the nodes parsed so far.
templateNodeParser(pi, fails, nodes) ==
    CASE NextToken(pi) \in {"}", "EOF"} ->
           [Nodes |-> nodes, matched |-> TRUE, err |-> NoErr, pi |-> pi]
      [] NextToken(pi) = "@" ->
           LET child == Parse(pi, fails)
               upTo  == IF child.n = NilNode THEN nodes ELSE Append(nodes, child.n)
           IN  IF child.err # NoErr
               THEN [Nodes |-> upTo, matched |-> FALSE, err |-> child.err, pi |-> child.pi]
               ELSE templateNodeParser(child.pi, fails, upTo)
      [] NextToken(pi) \in {"text", "Foo()"} ->
           templateNodeParser([pi EXCEPT !.index = @ + 1], fails,
                              Append(nodes, Text(NextToken(pi), SpaceNone)))
      [] OTHER ->
           [Nodes |-> nodes, matched |-> FALSE,
            err |-> ParseError("templ element closing brace not found", pi.index), pi |-> pi]

\* Parse returning no node for an element without a block.
Parse_DiscardsSelfClosing(pi, fails) ==
    LET prefix == ParseToken("@", pi) IN
    IF prefix.err # NoErr \/ ~prefix.matched
    THEN [n |-> NilNode, matched |-> FALSE, err |-> NoErr, pi |-> prefix.pi]
    ELSE
    LET go == parseGo(prefix.pi)
        r  == [type |-> "TemplElementExpression", Expression |-> go.Expression,
               Children |-> <<>>]
    IN
    IF go.err # NoErr THEN [n |-> r, matched |-> TRUE, err |-> go.err, pi |-> go.pi]
    ELSE
    LET open == openBraceWithOptionalPadding(go.pi, fails) IN
    IF open.err # NoErr
    THEN [n |-> NilNode, matched |-> prefix.matched, err |-> open.err, pi |-> open.pi]
    ELSE IF ~open.matched THEN [n |-> NilNode, matched |-> TRUE, err |-> NoErr, pi |-> open.pi]
    ELSE
    LET nodes == templateNodeParser(open.pi, fails, <<>>)
        rc    == [r EXCEPT !.Children = nodes.Nodes]
    IN
    IF nodes.err # NoErr \/ ~nodes.matched
    THEN [n |-> rc, matched |-> TRUE,
          err |-> ParseError("@" \o r.Expression.Value \o ": expected nodes, but none were found",
                             nodes.pi.index),
          pi |-> nodes.pi]
    ELSE
    LET close == closeBraceWithOptionalPadding(nodes.pi) IN
    IF close.err # NoErr \/ ~close.matched
    THEN [n |-> rc, matched |-> TRUE,
          err |-> ParseError("@" \o r.Expression.Value \o ": missing end (expected '}')",
                             close.pi.index),
          pi |-> close.pi]
    ELSE [n |-> rc, matched |-> TRUE, err |-> NoErr, pi |-> close.pi]

\* Parse returning the node without its children when the closing brace is missing.
Parse_DropsChildren(pi, fails) ==
    LET prefix == ParseToken("@", pi) IN
    IF prefix.err # NoErr \/ ~prefix.matched
    THEN [n |-> NilNode, matched |-> FALSE, err |-> NoErr, pi |-> prefix.pi]
    ELSE
    LET go == parseGo(prefix.pi)
        r  == [type |-> "TemplElementExpression", Expression |-> go.Expression,
               Children |-> <<>>]
    IN
    IF go.err # NoErr THEN [n |-> r, matched |-> TRUE, err |-> go.err, pi |-> go.pi]
    ELSE
    LET open == openBraceWithOptionalPadding(go.pi, fails) IN
    IF open.err # NoErr
    THEN [n |-> NilNode, matched |-> prefix.matched, err |-> open.err, pi |-> open.pi]
    ELSE IF ~open.matched THEN [n |-> r, matched |-> TRUE, err |-> NoErr, pi |-> open.pi]
    ELSE
    LET nodes == templateNodeParser(open.pi, fails, <<>>)
        rc    == [r EXCEPT !.Children = nodes.Nodes]
    IN
    IF nodes.err # NoErr \/ ~nodes.matched
    THEN [n |-> rc, matched |-> TRUE,
          err |-> ParseError("@" \o r.Expression.Value \o ": expected nodes, but none were found",
                             nodes.pi.index),
          pi |-> nodes.pi]
    ELSE
    LET close == closeBraceWithOptionalPadding(nodes.pi) IN
    IF close.err # NoErr \/ ~close.matched
    THEN [n |-> r, matched |-> TRUE,
          err |-> ParseError("@" \o r.Expression.Value \o ": missing end (expected '}')",
                             close.pi.index),
          pi |-> close.pi]
    ELSE [n |-> rc, matched |-> TRUE, err |-> NoErr, pi |-> close.pi]

\* Parse returning the node without the children parsed before the body failed.
Parse_DropsPartialChildren(pi, fails) ==
    LET prefix == ParseToken("@", pi) IN
    IF prefix.err # NoErr \/ ~prefix.matched
    THEN [n |-> NilNode, matched |-> FALSE, err |-> NoErr, pi |-> prefix.pi]
    ELSE
    LET go == parseGo(prefix.pi)
        r  == [type |-> "TemplElementExpression", Expression |-> go.Expression,
               Children |-> <<>>]
    IN
    IF go.err # NoErr THEN [n |-> r, matched |-> TRUE, err |-> go.err, pi |-> go.pi]
    ELSE
    LET open == openBraceWithOptionalPadding(go.pi, fails) IN
    IF open.err # NoErr
    THEN [n |-> NilNode, matched |-> prefix.matched, err |-> open.err, pi |-> open.pi]
    ELSE IF ~open.matched THEN [n |-> r, matched |-> TRUE, err |-> NoErr, pi |-> open.pi]
    ELSE
    LET nodes == templateNodeParser(open.pi, fails, <<>>)
        rc    == [r EXCEPT !.Children = nodes.Nodes]
    IN
    IF nodes.err # NoErr \/ ~nodes.matched
    THEN [n |-> r, matched |-> TRUE,
          err |-> ParseError("@" \o r.Expression.Value \o ": expected nodes, but none were found",
                             nodes.pi.index),
          pi |-> nodes.pi]
    ELSE
    LET close == closeBraceWithOptionalPadding(nodes.pi) IN
    IF close.err # NoErr \/ ~close.matched
    THEN [n |-> rc, matched |-> TRUE,
          err |-> ParseError("@" \o r.Expression.Value \o ": missing end (expected '}')",
                             close.pi.index),
          pi |-> close.pi]
    ELSE [n |-> rc, matched |-> TRUE, err |-> NoErr, pi |-> close.pi]

\* templElementExpressionParser.Parse(pi): (n, matched, err) and the input after it.
Parse(pi, fails) ==
    LET prefix == ParseToken("@", pi) IN
    IF prefix.err # NoErr \/ ~prefix.matched
    THEN [n |-> NilNode, matched |-> FALSE, err |-> NoErr, pi |-> prefix.pi]
    ELSE
    LET go == parseGo(prefix.pi)
        r  == [type |-> "TemplElementExpression", Expression |-> go.Expression,
               Children |-> <<>>]
    IN
    IF go.err # NoErr THEN [n |-> r, matched |-> TRUE, err |-> go.err, pi |-> go.pi]
    ELSE
    LET open == openBraceWithOptionalPadding(go.pi, fails) IN
    IF open.err # NoErr
    THEN [n |-> NilNode, matched |-> prefix.matched, err |-> open.err, pi |-> open.pi]
    ELSE IF ~open.matched THEN [n |-> r, matched |-> TRUE, err |-> NoErr, pi |-> open.pi]
    ELSE
    LET nodes == templateNodeParser(open.pi, fails, <<>>)
        rc    == [r EXCEPT !.Children = nodes.Nodes]
    IN
    IF nodes.err # NoErr \/ ~nodes.matched
    THEN [n |-> rc, matched |-> TRUE,
          err |-> ParseError("@" \o r.Expression.Value \o ": expected nodes, but none were found",
                             nodes.pi.index),
          pi |-> nodes.pi]
    ELSE
    LET close == closeBraceWithOptionalPadding(nodes.pi) IN
    IF close.err # NoErr \/ ~close.matched
    THEN [n |-> rc, matched |-> TRUE,
          err |-> ParseError("@" \o r.Expression.Value \o ": missing end (expected '}')",
                             close.pi.index),
          pi |-> close.pi]
    ELSE [n |-> rc, matched |-> TRUE, err |-> NoErr, pi |-> close.pi]

InitParse ==
    /\ file = 0
    /\ program = <<>>
    /\ pc = 1
    /\ w = NewRangeWriter
    /\ sink = <<>>
    /\ sourceMap = NewSourceMap
    /\ variableID = 0
    /\ childrenVar = ""
    /\ names = <<>>
    /\ tgtSymbolRange = ZeroRange
    /\ err = NoErr
    /\ unwinding = FALSE
    /\ rejects = 0
    /\ log = <<>>
    /\ ret = NotReturned
    /\ prev = ZeroOutput
    /\ next = ZeroOutput
    /\ goChanged = Idle
    /\ textChanged = Idle
    /\ tokens \in SeqsUpTo(Tokens, MaxTokens)
    /\ braceErr \in BOOLEAN
    /\ parsed = NotParsed
    /\ call = NoCall
    /\ emitted = NotEmitted

\* A caller runs the parser on the input.
CallParse ==
    /\ ~parsed.done
    /\ LET res == Parse(NewInput(tokens), braceErr)
       IN  parsed' = [done |-> TRUE, n |-> res.n, matched |-> res.matched, err |-> res.err,
                      index |-> res.pi.index]
    /\ UNCHANGED <<genVars, cmpVars, emitVars, tokens, braceErr>>

NextParse == CallParse

SpecParse == InitParse /\ [][NextParse]_vars

----------------------------------------------------------------------------
(* Writers called on their own, on a sink that accepts every write.        *)

\* What the steps of a writer emit, run on a new generator.
Emit(steps) ==
    LET g == Run(NewGenerator, steps, NoOptions)
    IN  [done |-> TRUE, err |-> g.ret.err, sink |-> g.sink, log |-> g.log,
         literals |-> g.w.Literals, sourceMap |-> g.sourceMap, ids |-> g.variableID,
         names |-> g.names]

ElementNames == {"a", "link", "form", "object", "div", "button"}

AttributeKeys ==
    {ConstantAttributeKey(k) :
       k \in {"href", "action", "data", "style", "onclick", "on", "hx-on:click", "hx-on",
              "title", "class"}}
    \cup {[type |-> "ExpressionAttributeKey", Expression |-> Expression("key()", 20, 2, 4)]}

\* writeExpressionAttribute for every element name and attribute key above.
ExpressionAttributeCalls ==
    {[fn |-> "writeExpressionAttribute", indentLevel |-> 2, elementName |-> el,
      attr |-> [type |-> "ExpressionAttribute", Key |-> key,
                Expression |-> Expression("value()", 30, 2, 14)]] :
       el \in ElementNames, key \in AttributeKeys}

ExpressionAttr(key, value, col) ==
    [type |-> "ExpressionAttribute", Key |-> ConstantAttributeKey(key),
     Expression |-> Expression(value, 30 + col, 2, col)]

\* Attributes an element may carry: class and script-handler expression
\* attributes, others, and conditional attributes that hold them.
AttributeSamples ==
    {ExpressionAttr("class", "cls()", 10),
     ExpressionAttr("onclick", "handler()", 20),
     ExpressionAttr("hx-on:click", "other()", 30),
     ExpressionAttr("title", "t()", 40),
     [type |-> "ConstantAttribute", Key |-> ConstantAttributeKey("id"),
      Value |-> "x", SingleQuote |-> FALSE],
     [type |-> "ConditionalAttribute", Expression |-> Expression("ok", 80, 3, 5),
      Then |-> <<ExpressionAttr("onkeyup", "keys()", 50), ExpressionAttr("class", "more()", 60)>>,
      Else |-> <<ExpressionAttr("onblur", "left()", 70)>>],
     [type |-> "ConditionalAttribute", Expression |-> Expression("dark", 90, 4, 5),
      Then |-> <<ExpressionAttr("title", "night()", 50)>>,
      Else |-> <<ExpressionAttr("class", "day()", 60)>>]}

\* writeElement for a div with every attribute list of up to MaxAttrs samples.
ElementCalls ==
    {[fn |-> "writeElement", indentLevel |-> 2,
      n |-> Element("div", attrs, <<>>, SpaceNone)] :
       attrs \in SeqsUpTo(AttributeSamples, MaxAttrs)}

WhitespaceNode == [type |-> "Whitespace", Value |-> "\n\t"]

\* Children a template may hold: text and a string expression with and without
\* a trailing space, whitespace, an inline and a block element, and an if, a
\* for, a switch and a template element whose bodies end in a node that has a
\* trailing space and hold whitespace at the edges and in the middle.
NodeSamples ==
    {Text("a", SpaceVertical),
     Text("b", SpaceNone),
     StringExpression(Expression("name", 40, 3, 2), SpaceHorizontal),
     WhitespaceNode,
     Element("span", <<>>, <<Text("s", SpaceNone), WhitespaceNode, Text("u", SpaceHorizontal)>>,
             SpaceHorizontal),
     Element("div", <<>>, <<>>, SpaceHorizontal),
     [type |-> "IfExpression", Expression |-> Expression("ok", 50, 4, 5),
      Then |-> <<WhitespaceNode, Text("t", SpaceHorizontal), WhitespaceNode>>,
      ElseIfs |-> <<[Expression |-> Expression("maybe", 60, 5, 11),
                     Then |-> <<Text("m", SpaceHorizontal)>>]>>,
      Else |-> <<Text("e", SpaceNone), WhitespaceNode, Text("f", SpaceHorizontal)>>],
     [type |-> "ForExpression", Expression |-> Expression("_, x := range xs", 70, 6, 6),
      Children |-> <<Text("x", SpaceHorizontal), WhitespaceNode>>],
     [type |-> "SwitchExpression", Expression |-> Expression("kind", 80, 7, 9),
      Cases |-> <<[Expression |-> Expression("case 1:\n", 85, 8, 1),
                   Children |-> <<Text("one", SpaceHorizontal)>>],
                  [Expression |-> Expression("default:\n", 95, 9, 1),
                   Children |-> <<>>]>>],
     [type |-> "TemplElementExpression", Expression |-> Expression("Box()", 100, 10, 2),
      Children |-> <<WhitespaceNode, Text("k", SpaceNone), WhitespaceNode,
                     Text("l", SpaceHorizontal), WhitespaceNode>>]}

\* writeTemplate for a template with one, two or three of the children above.
TemplateCalls ==
    {[fn |-> "writeTemplate",
      t |-> HTMLTemplate(Expression("Page()", 20, 2, 6), children, Pos(14, 2, 0), Pos(120, 12, 1))] :
       children \in {<<x>> : x \in NodeSamples}
                    \cup {<<x, y>> : x, y \in NodeSamples}
                    \cup {<<x, y, z>> : x, y, z \in NodeSamples}}

\* Templates that ask for fresh variables: for the children of the caller,
\* for string expressions, for the classes of an element and for the
\* children handed to a template element.
TemplateSamples ==
    {HTMLTemplate(Expression("Name()", 20, 2, 6),
                  <<StringExpression(Expression("first", 40, 3, 2), SpaceHorizontal),
                    StringExpression(Expression("last", 50, 3, 12), SpaceNone)>>,
                  Pos(14, 2, 0), Pos(60, 4, 1)),
     HTMLTemplate(Expression("Badge()", 70, 6, 6),
                  <<Element("span",
                            <<[type |-> "ExpressionAttribute", Key |-> ConstantAttributeKey("class"),
                               Expression |-> Expression("red()", 95, 7, 15)]>>,
                            <<StringExpression(Expression("label", 105, 7, 25), SpaceNone)>>,
                            SpaceNone)>>,
                  Pos(64, 6, 0), Pos(120, 8, 1)),
     HTMLTemplate(Expression("Page()", 130, 10, 6),
                  <<[type |-> "TemplElementExpression", Expression |-> Expression("Box()", 150, 11, 2),
                     Children |-> <<StringExpression(Expression("body", 160, 12, 3), SpaceNone)>>]>>,
                  Pos(124, 10, 0), Pos(180, 14, 1))}

\* generate for a file of one, two or three of the templates above.
GenerateCalls ==
    {[fn |-> "generate", tf |-> TemplateFile(<<>>, nodes)] :
       nodes \in {<<x>> : x \in TemplateSamples}
                 \cup {<<x, y>> : x, y \in TemplateSamples}
                 \cup {<<x, y, z>> : x, y, z \in TemplateSamples}}

Calls == ExpressionAttributeCalls \cup ElementCalls \cup TemplateCalls \cup GenerateCalls

InitEmit ==
    /\ file = 0
    /\ program = <<>>
    /\ pc = 1
    /\ w = NewRangeWriter
    /\ sink = <<>>
    /\ sourceMap = NewSourceMap
    /\ variableID = 0
    /\ childrenVar = ""
    /\ names = <<>>
    /\ tgtSymbolRange = ZeroRange
    /\ err = NoErr
    /\ unwinding = FALSE
    /\ rejects = 0
    /\ log = <<>>
    /\ ret = NotReturned
    /\ prev = ZeroOutput
    /\ next = ZeroOutput
    /\ goChanged = Idle
    /\ textChanged = Idle
    /\ tokens = <<>>
    /\ braceErr = FALSE
    /\ parsed = NotParsed
    /\ call \in Calls
    /\ emitted = NotEmitted

\* g.writeExpressionAttribute(indentLevel, elementName, attr).
CallWriteExpressionAttribute ==
    /\ ~emitted.done
    /\ call.fn = "writeExpressionAttribute"
    /\ emitted' = Emit(writeExpressionAttribute(call.indentLevel, call.elementName,
                                                call.attr, <<1>>))
    /\ UNCHANGED <<genVars, cmpVars, parseVars, call>>

\* g.writeElement(indentLevel, n).
CallWriteElement ==
    /\ ~emitted.done
    /\ call.fn = "writeElement"
    /\ emitted' = Emit(writeElement(call.indentLevel, call.n, <<1>>))
    /\ UNCHANGED <<genVars, cmpVars, parseVars, call>>

\* g.writeTemplate(nodeIdx, t) for the only node of a file.
CallWriteTemplate ==
    /\ ~emitted.done
    /\ call.fn = "writeTemplate"
    /\ emitted' = Emit(writeTemplate(0, call.t, TemplateFile(<<>>, <<call.t>>), <<1>>))
    /\ UNCHANGED <<genVars, cmpVars, parseVars, call>>

\* g.generate() for a whole file.
CallGenerate ==
    /\ ~emitted.done
    /\ call.fn = "generate"
    /\ emitted' = Emit(generate(call.tf, NoOptions))
    /\ UNCHANGED <<genVars, cmpVars, parseVars, call>>

NextEmit ==
    \/ CallWriteExpressionAttribute
    \/ CallWriteElement
    \/ CallWriteTemplate
    \/ CallGenerate

SpecEmit == InitEmit /\ [][NextEmit]_vars

----------------------------------------------------------------------------
(* Properties of Generate.                                                 *)

\* C1: Generate never swallows a failure: when an attribute or node of an
\* unknown variant was met, or the sink rejected a write, Generate returns a
\* non-nil error; a later success does not overwrite the failure.
C1_FailureIsReturned ==
    (ret.done /\ \E i \in 1..Len(log) : ~log[i].ok) => ret.err # NoErr

\* C2: once the sink rejects a write the generator attempts no further write,
\* and Generate returns the error of that write.
C2_RejectionStopsGeneration ==
    \A i \in 1..Len(log) :
        (log[i].op = "write" /\ ~log[i].ok) =>
            /\ \A j \in (i + 1)..Len(log) : log[j].op # "write"
            /\ ret.done => ret.err = WriteErr(i)

\* C3 (as stated): every write that puts the text of an Expression into the
\* output appends an expressions entry pairing the Expression's source range
\* with the range of the write, the handler expressions passed to
\* RenderScriptItems included.
C3_EveryExpressionWriteHasEntry ==
    \A i \in 1..Len(log) :
        (log[i].ok /\ log[i].exprs # {}) =>
            \A e \in log[i].exprs :
                \E k \in 1..Len(sourceMap.Expressions) :
                    sourceMap.Expressions[k] = [src |-> e.Range, dst |-> log[i].r]

\* C3 (amended): every write that puts the text of an Expression into the
\* output appends an expressions entry pairing the Expression's source range
\* with the range of the write, except the write of the RenderScriptItems call,
\* which lists the handler expressions without an entry.
C3_ExpressionWriteHasEntry ==
    \A i \in 1..Len(log) :
        (log[i].ok /\ log[i].exprs # {} /\ log[i].fn # "writeElementScript") =>
            \A e \in log[i].exprs :
                \E k \in 1..Len(sourceMap.Expressions) :
                    sourceMap.Expressions[k] = [src |-> e.Range, dst |-> log[i].r]

\* C3 witness: the handler expression of an attribute was written twice, in the
\* RenderScriptItems call and as the value of the attribute, and Generate returned.
C3_Witness ==
    /\ ret.done
    /\ ret.err = NoErr
    /\ rejects = 0
    /\ \E i, j \in 1..Len(log) :
          /\ log[i].ok /\ log[i].fn = "writeElementScript" /\ log[i].exprs # {}
          /\ log[j].ok /\ log[j].fn = "writeExpressionAttributeValueScript"
          /\ log[j].exprs = log[i].exprs

\* C4: after a successful Generate, every Expression of the template whose
\* text is in the output has exactly one expressions entry whose source range
\* is the range of the Expression.
C4_ExactlyOneEntryPerExpression ==
    (ret.done /\ ret.err = NoErr) =>
        \A i \in 1..Len(log) :
            log[i].ok =>
                \A e \in log[i].exprs :
                    Cardinality({k \in 1..Len(ret.op.SourceMap.Expressions) :
                                   ret.op.SourceMap.Expressions[k].src = e.Range}) = 1

\* C5: after a successful Generate, symbol_ranges holds exactly one entry for
\* each header block and each top-level declaration (pass-through block, html,
\* css and script template), also for a block whose last line is a line comment.
C5_OneSymbolRangePerDeclaration ==
    (ret.done /\ ret.err = NoErr) =>
        LET tf    == Files[file].tf
            srcs  == {tf.Header[i].Expression.Range : i \in 1..Len(tf.Header)}
                     \cup {IF tf.Nodes[i].type = "TemplateFileGoExpression"
                           THEN tf.Nodes[i].Expression.Range
                           ELSE tf.Nodes[i].Range : i \in 1..Len(tf.Nodes)}
            table == ret.op.SourceMap.SymbolRanges
        IN  /\ \A s \in srcs : Cardinality({k \in 1..Len(table) : table[k].src = s}) = 1
            /\ Len(table) = Len(tf.Header) + Len(tf.Nodes)

\* C6: the destination ranges of symbol_ranges do not overlap one another
\* (as half-open ranges) and increase strictly in the order of insertion.
C6_SymbolRangesOrdered ==
    \A k, l \in 1..Len(sourceMap.SymbolRanges) :
        k < l =>
            /\ sourceMap.SymbolRanges[k].dst.To.Index <= sourceMap.SymbolRanges[l].dst.From.Index
            /\ sourceMap.SymbolRanges[k].dst.From.Index < sourceMap.SymbolRanges[l].dst.From.Index
            /\ sourceMap.SymbolRanges[k].dst.From.Index <= sourceMap.SymbolRanges[k].dst.To.Index

\* C6 witness: Generate returned a source map with the symbol ranges of a
\* pass-through block, a css, a script and an html template.
C6_Witness ==
    /\ ret.done
    /\ ret.err = NoErr
    /\ Len(ret.op.SourceMap.SymbolRanges) >= 4

----------------------------------------------------------------------------
(* Properties of change detection.                                         *)

\* C7: HasGoChanged returns true exactly when the two outputs differ in
\* Version, FileName, SkipCodeGeneratedComment, the number of literals, the
\* number of expression entries, or an expression entry at some index; and
\* false otherwise.
C7_GoChangedIff ==
    LET exprs(g) == IF g.SourceMap.isNil THEN <<>> ELSE g.SourceMap.Expressions
        differ == \/ prev.Options.Version # next.Options.Version
                  \/ prev.Options.FileName # next.Options.FileName
                  \/ prev.Options.SkipCodeGeneratedComment
                       # next.Options.SkipCodeGeneratedComment
                  \/ Len(prev.Literals) # Len(next.Literals)
                  \/ Len(exprs(prev)) # Len(exprs(next))
                  \/ \E i \in 1..Len(exprs(prev)) : exprs(prev)[i] # exprs(next)[i]
    IN  goChanged # Idle => goChanged = (IF differ THEN "true" ELSE "false")

\* C8: for outputs that are equal except for GeneratedDate (also for twice
\* the same output) HasGoChanged returns false.
C8_GeneratedDateIgnored ==
    (/\ goChanged # Idle
     /\ [prev EXCEPT !.Options.GeneratedDate = ""] = [next EXCEPT !.Options.GeneratedDate = ""])
    => goChanged = "false"

C10_NoPanic == goChanged # "panic" /\ textChanged # "panic"

\* C11: HasTextChanged returns true exactly when the two literals vectors
\* differ in length or in the string at some index; the options and the
\* source map (nil or not) have no influence on the result.
C11_TextChangedIff ==
    textChanged # Idle =>
        textChanged = (IF prev.Literals # next.Literals THEN "true" ELSE "false")

\* C11 witness: HasTextChanged returned true for two vectors of the same
\* length, for outputs whose options and source maps differ as well.
C11_Witness ==
    /\ textChanged = "true"
    /\ Len(prev.Literals) = Len(next.Literals)
    /\ prev.Options # next.Options
    /\ prev.SourceMap # next.SourceMap

----------------------------------------------------------------------------
(* Properties of the emitted code.                                         *)

\* C13: every generated render function, the wrapper of an HTML template and
\* the anonymous children component of a template-element call with a
\* children block alike, starts by checking the context for cancellation:
\* the statement that follows the line binding templ_7745c5c3_W and ctx is
\* the ctx.Err() check, before a buffer is acquired or anything is written.
C13_RenderEntryChecksContext ==
    \A i \in 1..Len(log) :
        (/\ log[i].ok
         /\ HasSuffix(log[i].text,
              "templ_7745c5c3_W, ctx := templ_7745c5c3_Input.Writer, templ_7745c5c3_Input.Context\n")
         /\ i < Len(log))
        => HasSuffix(log[i + 1].text,
             "if templ_7745c5c3_CtxErr := ctx.Err(); templ_7745c5c3_CtxErr != nil {\n")

\* The write that ends a top-level declaration: the closing brace of a
\* template, or the line end after a pass-through block.
IsDeclarationEnd(e) ==
    /\ e.op = "write"
    /\ e.ok
    /\ \/ e.fn \in {"writeTemplate", "writeCSS", "writeScript"} /\ e.text \in {"}\n", "}\n\n"}
       \/ e.fn = "writeGoExpression" /\ e.text \in {"\n", "\n\n"}

\* C14: in the emitted file every top-level declaration is followed by exactly
\* one blank line, except the final one, which is followed by none, whatever
\* its kind (html, css or script template, pass-through block).
C14_BlankLineBetweenDeclarations ==
    LET imports == {i \in 1..Len(log) : log[i].fn = "writeImports"}
        ends    == IF imports = {} THEN <<>>
                   ELSE SelectSeq(SubSeq(log, Max(imports) + 1, Len(log)), IsDeclarationEnd)
    IN  \A k \in 1..Len(ends) :
            IF k < Len(Files[file].tf.Nodes)
            THEN ends[k].text \in {"}\n\n", "\n\n"}
            ELSE ends[k].text \in {"}\n", "\n"}

RECURSIVE IsWhitespaceLiteral(_)
\* The literal l holds whitespace only: spaces, tabs and newlines, raw or as
\* the escapes strconv.Quote makes of them.
IsWhitespaceLiteral(l) ==
    IF l = "" THEN TRUE
    ELSE IF Char(l, 1) \in {" ", "\t", "\n"}
         THEN IsWhitespaceLiteral(SubSeq(l, 2, Len(l)))
    ELSE IF Len(l) >= 2 /\ SubSeq(l, 1, 2) \in {"\\n", "\\t", "\\r"}
         THEN IsWhitespaceLiteral(SubSeq(l, 3, Len(l)))
    ELSE FALSE

\* A successful WriteStringLiteral: the k-th of them appended literals[k].
IsLiteralWrite(e) == e.op = "write" /\ e.ok /\ e.lit

RECURSIVE Walk(_, _, _)
\* The nodes in document order, children between what Open and Close give
\* for their parent.
Walk(Open(_), Close(_), nodes) ==
    LET below(n) ==
            CASE n.type = "IfExpression" ->
                   Walk(Open, Close, n.Then)
                   \o Concat([m \in 1..Len(n.ElseIfs) |-> Walk(Open, Close, n.ElseIfs[m].Then)])
                   \o Walk(Open, Close, n.Else)
              [] n.type = "SwitchExpression" ->
                   Concat([m \in 1..Len(n.Cases) |-> Walk(Open, Close, n.Cases[m].Children)])
              [] n.type \in {"HTMLTemplate", "Element", "ForExpression",
                             "TemplElementExpression"} ->
                   Walk(Open, Close, n.Children)
              [] OTHER -> <<>>
    IN  Concat([i \in 1..Len(nodes) |-> Open(nodes[i]) \o below(nodes[i]) \o Close(nodes[i])])

\* The tag literals the claim expects for an Element: the opening tag, and
\* after the children the closing tag unless it is a void element with an
\* empty child list.
OpeningTag(n) ==
    IF n.type # "Element" THEN <<>>
    ELSE <<IF Len(n.Attributes) = 0 THEN "<" \o n.Name \o ">" ELSE "<" \o n.Name>>

ClosingTag(n) ==
    IF n.type # "Element" \/ (IsVoidElement(n) /\ Len(n.Children) = 0) THEN <<>>
    ELSE <<"</" \o n.Name \o ">">>

\* The tag literals writeElement appended so far.
TagsWritten ==
    LET writes == SelectSeq(log, IsLiteralWrite)
        tags   == {k \in 1..Len(writes) : writes[k].fn = "writeElement" /\ w.Literals[k] # ">"}
        F[k \in 0..Len(writes)] ==
            IF k = 0 THEN <<>>
            ELSE IF k \in tags THEN Append(F[k - 1], w.Literals[k]) ELSE F[k - 1]
    IN  F[Len(writes)]

\* C17: for an Element the children and the closing-tag literal are emitted
\* if and only if it is not a known void element with an empty child list: a
\* void element without children gives its opening tag only, one with
\* children is emitted like any other element.
C17_VoidElementRule ==
    (ret.done /\ ret.err = NoErr) =>
        TagsWritten = Walk(OpeningTag, ClosingTag, Files[file].tf.Nodes)

\* C17 witness: Generate returned for a template with a void element without
\* children (no closing tag) and one with children (closing tag written).
C17_Witness ==
    /\ ret.done
    /\ ret.err = NoErr
    /\ \E k \in 1..Len(TagsWritten) : TagsWritten[k] = "</hr>"
    /\ \E k \in 1..Len(TagsWritten) : TagsWritten[k] = "</wbr>"
    /\ \E k \in 1..Len(TagsWritten) : TagsWritten[k] = "<b>"
    /\ \E k \in 1..Len(TagsWritten) : TagsWritten[k] = "<br>"
    /\ \A k \in 1..Len(TagsWritten) : TagsWritten[k] # "</br>"

\* What the claim expects for a TemplElementExpression: with children a
\* wrapper before the child body and a call with children after it, without
\* children a direct call.
WrapperOf(n) ==
    IF n.type = "TemplElementExpression" /\ Len(n.Children) > 0
    THEN <<[kind |-> "wrapper", text |-> ""]>>
    ELSE <<>>

CallOf(n) ==
    IF n.type # "TemplElementExpression" THEN <<>>
    ELSE <<[kind |-> IF Len(n.Children) > 0 THEN "with children" ELSE "direct",
            text |-> n.Expression.Value]>>

WrapperLine ==
    " := templruntime.GeneratedTemplate(func(templ_7745c5c3_Input templruntime.GeneratedComponentInput) (templ_7745c5c3_Err error) {\n"

\* The log entry i is the render call of a template element: the write after
\* the one of its expression.
IsRenderCall(i) ==
    /\ i > 2
    /\ log[i].fn \in {"writeSelfClosingTemplElementExpression",
                      "writeBlockTemplElementExpression"}
    /\ log[i - 1].fn = log[i].fn
    /\ log[i - 1].exprs # {}

\* The wrappers and render calls of template elements written so far.
TemplElementsWritten ==
    LET isWrapper(i) == /\ log[i].fn = "writeBlockTemplElementExpression"
                        /\ HasSuffix(log[i].text, WrapperLine)
        at == {i \in 1..Len(log) : isWrapper(i) \/ IsRenderCall(i)}
        event(i) ==
            IF isWrapper(i) THEN [kind |-> "wrapper", text |-> ""]
            ELSE [kind |-> IF HasPrefix(log[i].text, ".Render(templ.WithChildren(ctx, ")
                           THEN "with children"
                           ELSE IF log[i].text = ".Render(ctx, templ_7745c5c3_Buffer)\n"
                           THEN "direct" ELSE "other",
                  text |-> (CHOOSE e \in log[i - 1].exprs : TRUE).Value]
    IN  [k \in 1..Cardinality(at) |->
           event(CHOOSE i \in at : Cardinality({j \in at : j <= i}) = k)]

\* C18: a TemplElementExpression with a non-empty children list is emitted as
\* a freshly named anonymous component wrapping the child body, followed by a
\* render call that passes that component through templ.WithChildren; one
\* with an empty children list is emitted as a direct render call on ctx, with
\* no wrapper and no fresh variable. Either call is followed by the plain
\* error handler.
C18_TemplElementWithAndWithoutChildren ==
    /\ AtStep("newvar") => Prog[pc].fn # "writeSelfClosingTemplElementExpression"
    /\ \A s, t \in DOMAIN names : names[s] = names[t] => s = t
    /\ (ret.done /\ ret.err = NoErr) =>
          /\ TemplElementsWritten = Walk(WrapperOf, CallOf, Files[file].tf.Nodes)
          /\ \A i \in 1..Len(log) :
                IsRenderCall(i) =>
                   /\ log[i - 2].text = Tabs(Len(log[i - 2].text) - 21) \o "templ_7745c5c3_Err = "
                   /\ log[i + 1].fn = "writeErrorHandler"
                   /\ HasSuffix(log[i + 1].text, "\tif templ_7745c5c3_Err != nil {\n")
                   /\ HasSuffix(log[i + 2].text, "\treturn templ_7745c5c3_Err\n")
                   /\ HasSuffix(log[i + 3].text, "\t}\n")
                   /\ log[i].fn = "writeBlockTemplElementExpression" =>
                         \E s \in DOMAIN names :
                            /\ log[i].text = ".Render(templ.WithChildren(ctx, " \o names[s]
                                                \o "), templ_7745c5c3_Buffer)\n"
                            /\ \E j \in 1..(i - 1) :
                                  HasSuffix(log[j].text, "\t" \o names[s] \o WrapperLine)

\* C18 witness: Generate returned for a template with a template element
\* without children and one with a children block.
C18_Witness ==
    /\ ret.done
    /\ ret.err = NoErr
    /\ \E k \in 1..Len(TemplElementsWritten) : TemplElementsWritten[k].kind = "direct"
    /\ \E k \in 1..Len(TemplElementsWritten) : TemplElementsWritten[k].kind = "with children"
    /\ \E k \in 1..Len(TemplElementsWritten) : TemplElementsWritten[k].kind = "wrapper"

----------------------------------------------------------------------------
(* Properties of the template-element parser.                              *)

\* C19: self-closing case: after '@' and a template expression, when no open
\* brace follows (the input ends, or something else follows), Parse returns
\* matched = true, a node carrying the expression and an empty children list,
\* and no error.
C19_SelfClosing ==
    (/\ parsed.done
     /\ ~braceErr
     /\ Len(tokens) >= 2
     /\ tokens[1] = "@"
     /\ tokens[2] = "Foo()"
     /\ Len(tokens) > 2 => tokens[3] # "{")
    => /\ parsed.matched
       /\ parsed.err = NoErr
       /\ parsed.n = [type |-> "TemplElementExpression",
                      Expression |-> Expression("Foo()", 1, 0, 1), Children |-> <<>>]

\* C19 witness: Parse returned for the input @Foo() followed by the end of
\* the input.
C19_Witness == parsed.done /\ ~braceErr /\ tokens = <<"@", "Foo()">> /\ parsed.matched

\* C20: missing end: when the open brace was consumed and the body nodes were
\* parsed but no closing brace follows, Parse returns matched = true, the node
\* with the children parsed so far (none for @Foo() { and the end of the
\* input), and the error "@<expression>: missing end (expected '}')".
C20_MissingEnd ==
    (/\ parsed.done
     /\ ~braceErr
     /\ Len(tokens) >= 3
     /\ SubSeq(tokens, 1, 3) = <<"@", "Foo()", "{">>
     /\ \A i \in 4..Len(tokens) : tokens[i] \in {"text", "Foo()"})
    => /\ parsed.matched
       /\ parsed.n = [type |-> "TemplElementExpression",
                      Expression |-> Expression("Foo()", 1, 0, 1),
                      Children |-> [i \in 1..(Len(tokens) - 3) |-> Text(tokens[i + 3], SpaceNone)]]
       /\ parsed.err.msg = "@Foo(): missing end (expected '}')"

\* C20 witness: Parse returned the missing-end error for @Foo() { text and
\* the end of the input, with the text node as child.
C20_Witness ==
    /\ parsed.done
    /\ ~braceErr
    /\ tokens = <<"@", "Foo()", "{", "text">>
    /\ parsed.err.msg = "@Foo(): missing end (expected '}')"
    /\ Len(parsed.n.Children) = 1

\* C21: body failure: when the node parser after the open brace fails or does
\* not match, Parse returns matched = true and the node with the children
\* parsed before the failure, and an error at the current input position whose
\* message is "@<expression>: expected nodes, but none were found".  In the
\* inputs here the body holds text nodes and then a second open brace, which
\* no node starts with.
C21_BodyFailure ==
    /\ (/\ parsed.done
        /\ ~braceErr
        /\ Len(tokens) >= 4
        /\ SubSeq(tokens, 1, 3) = <<"@", "Foo()", "{">>
        /\ \E k \in 4..Len(tokens) :
              /\ tokens[k] = "{"
              /\ \A i \in 4..(k - 1) : tokens[i] \in {"text", "Foo()"})
       => LET k == CHOOSE j \in 4..Len(tokens) : tokens[j] = "{" /\ \A i \in 4..(j - 1) : tokens[i] # "{"
          IN  /\ parsed.matched
              /\ parsed.n = [type |-> "TemplElementExpression",
                             Expression |-> Expression("Foo()", 1, 0, 1),
                             Children |-> [i \in 1..(k - 4) |-> Text(tokens[i + 3], SpaceNone)]]
              /\ parsed.err = ParseError("@Foo(): expected nodes, but none were found", k - 1)
              /\ parsed.index = k - 1
    /\ (parsed.done /\ parsed.err.msg = "@Foo(): expected nodes, but none were found")
       => /\ parsed.matched
          /\ parsed.n # NilNode
          /\ parsed.n.type = "TemplElementExpression"
          /\ parsed.err.n = parsed.index

\* C21 witness: Parse returned the expected-nodes error for @Foo() { text {
\* with the text node as the only child.
C21_Witness ==
    /\ parsed.done
    /\ ~braceErr
    /\ tokens = <<"@", "Foo()", "{", "text", "{">>
    /\ parsed.err.msg = "@Foo(): expected nodes, but none were found"
    /\ Len(parsed.n.Children) = 1

\* C29: whenever Parse reports matched = true, the node it returns is a
\* non-nil template-element node, on every path, the error paths included.
C29_MatchedHasNode ==
    (parsed.done /\ parsed.matched) =>
        /\ parsed.n # NilNode
        /\ parsed.n.type = "TemplElementExpression"

----------------------------------------------------------------------------
(* Properties of the layout of the emitted file.                           *)

\* What the file starts with, write by write: the marker or its placeholder,
\* the version and the timestamp comments when the options ask for them, the
\* header blocks, the package declaration, the lint pragma and the imports.
PreambleTexts(tf, options) ==
    <<IF options.SkipCodeGeneratedComment THEN "//\n\n"
      ELSE "// Code generated by templ - DO NOT EDIT.\n\n">>
    \o (IF options.Version = "" THEN <<>>
        ELSE <<"// templ: version: " \o options.Version \o "\n">>)
    \o (IF options.GeneratedDate = "" THEN <<>>
        ELSE <<"// templ: generated: " \o options.GeneratedDate \o "\n">>)
    \o Concat([i \in 1..Len(tf.Header) |->
                 <<tf.Header[i].Expression.Value,
                   IF HasPrefix(LastLine(tf.Header[i].Expression.Value), "//")
                   THEN "\n" ELSE "\n\n">>])
    \o <<tf.Package.Expression.Value \o "\n\n",
         "//lint:file-ignore SA4006 This context is only used if a nested component is present.\n\n",
         "import \"github.com/a-h/templ\"\n",
         "import templruntime \"github.com/a-h/templ/runtime\"\n",
         "\n">>

BlankAssignmentText == "var _ = templruntime.GeneratedTemplate"

IsWrite(e) == e.op = "write"

\* The writes attempted so far, accepted or not.
WritesAttempted == SelectSeq(log, IsWrite)

\* The expression a declaration opens with: the block itself for a Go
\* pass-through, the name after "func " for a template of any kind.
DeclarationHeads ==
    LET ws    == WritesAttempted
        first == Len(PreambleTexts(Files[file].tf, Options)) + 1
        at    == {i \in first..Len(ws) :
                    /\ ws[i].exprs # {}
                    /\ \/ ws[i].fn = "writeGoExpression"
                       \/ /\ ws[i].fn \in {"writeTemplate", "writeCSS", "writeScript"}
                          /\ ws[i - 1].text = "func "
                          /\ ws[i - 1].fn = ws[i].fn}
    IN  [k \in 1..Cardinality(at) |->
           LET i == CHOOSE j \in at : Cardinality({h \in at : h <= j}) = k
           IN  [fn |-> ws[i].fn, exprs |-> ws[i].exprs]]

\* The writer and the opening expression of a top-level node.
DeclarationOf(n) ==
    CASE n.type = "TemplateFileGoExpression" -> [fn |-> "writeGoExpression", exprs |-> {n.Expression}]
      [] n.type = "HTMLTemplate"             -> [fn |-> "writeTemplate", exprs |-> {n.Expression}]
      [] n.type = "CSSTemplate"              -> [fn |-> "writeCSS", exprs |-> {n.Expression}]
      [] n.type = "ScriptTemplate"           -> [fn |-> "writeScript", exprs |-> {n.Name}]

\* C22: the emitted file has a fixed section order: the marker or its
\* placeholder, the optional version and timestamp comments, the header
\* blocks, the package declaration, the lint pragma, the two runtime imports,
\* one declaration per top-level node in source order, and last the blank
\* assignment that references the runtime package.  At every moment the writes
\* attempted so far follow this order; the declarations are compared once
\* Generate has returned without an error and without a rejected write.
C22_SectionOrder ==
    file \in 1..Len(Files) =>
        LET tf  == Files[file].tf
            pre == PreambleTexts(tf, Options)
            ws  == WritesAttempted
        IN  /\ \A i \in 1..Len(ws) : i <= Len(pre) => ws[i].text = pre[i]
            /\ \A i \in 1..Len(ws) :
                  ws[i].text = BlankAssignmentText => (i = Len(ws) /\ i > Len(pre))
            /\ (ret.done /\ ret.err = NoErr /\ rejects = 0) =>
                  /\ Len(ws) > Len(pre)
                  /\ ws[Len(ws)].text = BlankAssignmentText
                  /\ DeclarationHeads = [k \in 1..Len(tf.Nodes) |-> DeclarationOf(tf.Nodes[k])]

\* C22 witness: Generate returned for the file with a header block and five
\* declarations of all four kinds.
C22_Witness ==
    /\ file \in 1..Len(Files)
    /\ Files[file].tf = DeclarationsFile
    /\ ret.done
    /\ ret.err = NoErr
    /\ rejects = 0
    /\ Len(DeclarationHeads) = 5

----------------------------------------------------------------------------
(* Properties of the attribute and element writers.                        *)

\* The value paths whose opening shows in what was emitted.
ValuePathMarkers ==
    [url     |-> "JoinURLErrs(",
     script  |-> " templ.ComponentScript = ",
     style   |-> "SanitizeStyleAttributeValues(",
     default |-> "JoinStringErrs("]

\* What was emitted for the value: the writes that follow the literal ="
\* which ends the key.
ValueTexts ==
    LET sk    == emitted.sink
        opens == {i \in 1..Len(sk) : ContainsString(sk[i], "WriteString(\"=\\\"\")")}
    IN  IF opens = {} THEN <<>>
        ELSE LET open == CHOOSE i \in opens : \A j \in opens : j <= i
             IN  SubSeq(sk, open + 1, Len(sk))

ValuePathsTaken ==
    {p \in DOMAIN ValuePathMarkers :
       \E i \in 1..Len(ValueTexts) : ContainsString(ValueTexts[i], ValuePathMarkers[p])}

\* The path the pair (element name, attribute key) asks for.
ExpectedValuePath(elementName, key) ==
    IF <<elementName, key>> \in {<<"a", "href">>, <<"link", "href">>,
                                 <<"form", "action">>, <<"object", "data">>} THEN "url"
    ELSE IF HasPrefix(key, "on") \/ HasPrefix(key, "hx-on:") THEN "script"
    ELSE IF key = "style" THEN "style"
    ELSE "default"

EmitsForValue(sub) == \E i \in 1..Len(ValueTexts) : ContainsString(ValueTexts[i], sub)

\* C24: the value of an ExpressionAttr is emitted by exactly one of four
\* paths chosen from (element name, attribute key): the URL path for a.href,
\* link.href, form.action and object.data; the script-handler path for keys
\* that begin with on or hx-on:; the style path for the key style; the default
\* path otherwise.  Every path but the script-handler path emits the
\* expression-error handler and writes the value escaped; the script-handler
\* path writes the Call field of the script variable unescaped.
C24_ValuePath ==
    (emitted.done /\ call.fn = "writeExpressionAttribute") =>
        LET path == ExpectedValuePath(call.elementName, KeyString(call.attr.Key))
        IN  /\ emitted.err = NoErr
            /\ ValuePathsTaken = {path}
            /\ Cardinality({i \in 1..Len(ValueTexts) :
                              \E p \in DOMAIN ValuePathMarkers :
                                 ContainsString(ValueTexts[i], ValuePathMarkers[p])}) = 1
            /\ IF path = "script"
               THEN /\ EmitsForValue(".Call)\n")
                    /\ ~EmitsForValue("EscapeString(")
                    /\ ~EmitsForValue("templ.Error{")
               ELSE /\ EmitsForValue("templ.Error{Err: templ_7745c5c3_Err")
                    /\ EmitsForValue("WriteString(templ.EscapeString(templ_7745c5c3_Var")
                    /\ ~EmitsForValue(".Call)")

\* C24 witness: the action attribute of a form took the URL path.
C24_Witness ==
    /\ emitted.done
    /\ call.fn = "writeExpressionAttribute"
    /\ call.elementName = "form"
    /\ call.attr.Key = ConstantAttributeKey("action")
    /\ ValuePathsTaken = {"url"}

RECURSIVE ExpressionsOfAttributes(_, _)
\* The value expressions of the expression attributes whose key satisfies
\* wanted, in attribute order; for a conditional attribute the then-branch
\* comes before the else-branch.
ExpressionsOfAttributes(wanted(_), attrs) ==
    IF Len(attrs) = 0 THEN <<>>
    ELSE LET a == Head(attrs)
             own == CASE a.type = "ExpressionAttribute" ->
                           IF wanted(KeyString(a.Key)) THEN <<a.Expression.Value>> ELSE <<>>
                      [] a.type = "ConditionalAttribute" ->
                           ExpressionsOfAttributes(wanted, a.Then)
                           \o ExpressionsOfAttributes(wanted, a.Else)
                      [] OTHER -> <<>>
         IN  own \o ExpressionsOfAttributes(wanted, Tail(attrs))

IsClassKey(key) == key = "class"
IsHandlerKey(key) == HasPrefix(key, "on") \/ HasPrefix(key, "hx-on:")

RECURSIVE JoinComma(_)
JoinComma(ss) ==
    IF Len(ss) = 0 THEN ""
    ELSE IF Len(ss) = 1 THEN ss[1]
    ELSE ss[1] \o ", " \o JoinComma(Tail(ss))

\* Where, in what was emitted, a text holding sub stands.
EmittedAt(sub) == {i \in 1..Len(emitted.sink) : ContainsString(emitted.sink[i], sub)}

\* C25: for an Element with attributes, all pre-element handling is emitted
\* before the opening-tag literal <tag: first one RenderCSSItems call per class
\* ExpressionAttr (conditional attributes included), then at most one
\* RenderScriptItems call that lists the value expressions of all
\* script-handler attributes in attribute order (then-branch before
\* else-branch); there is no RenderScriptItems call when the element has no
\* script-handler attribute.
C25_PreElementHandling ==
    (emitted.done /\ call.fn = "writeElement") =>
        LET sk      == emitted.sink
            classes == ExpressionsOfAttributes(IsClassKey, call.n.Attributes)
            scripts == ExpressionsOfAttributes(IsHandlerKey, call.n.Attributes)
            cssAt   == EmittedAt("templ.RenderCSSItems(")
            jsAt    == EmittedAt("templ.RenderScriptItems(")
            tagAt   == EmittedAt("WriteString(\"<div")
        IN  /\ emitted.err = NoErr
            /\ Cardinality(tagAt) = 1
            /\ \A c \in cssAt, t \in tagAt : c < t
            /\ \A j \in jsAt, t \in tagAt : j < t
            /\ \A c \in cssAt, j \in jsAt : c < j
            /\ Cardinality(cssAt) = Len(classes)
            /\ \A c \in cssAt :
                  /\ c > 3
                  /\ ContainsString(sk[c - 3], " = []any{")
                  /\ sk[c - 2] = classes[Cardinality({d \in cssAt : d <= c})]
            /\ IF Len(scripts) = 0 THEN jsAt = {}
               ELSE /\ Cardinality(jsAt) = 1
                    /\ \A j \in jsAt :
                          HasSuffix(sk[j], "templ.RenderScriptItems(ctx, templ_7745c5c3_Buffer, "
                                           \o JoinComma(scripts) \o ")\n")

\* C25 witness: an element whose conditional attribute holds a class and two
\* handlers and which has a handler of its own: one RenderCSSItems call, then
\* one RenderScriptItems call for the three handlers.
C25_Witness ==
    /\ emitted.done
    /\ call.fn = "writeElement"
    /\ ExpressionsOfAttributes(IsHandlerKey, call.n.Attributes) = <<"keys()", "left()", "handler()">>
    /\ Cardinality(EmittedAt("templ.RenderCSSItems(")) = 1
    /\ Cardinality(EmittedAt("templ.RenderScriptItems(")) = 1

----------------------------------------------------------------------------
(* Properties of the whitespace a template emits.                          *)

\* The literal writes of the call in order: the function that made the k-th
\* successful WriteStringLiteral, paired with the literal it appended.
LiteralEvents ==
    LET at == {i \in 1..Len(emitted.log) : IsLiteralWrite(emitted.log[i])}
    IN  [k \in 1..Cardinality(at) |->
           LET j == CHOOSE i \in at : Cardinality({h \in at : h <= i}) = k
           IN  <<emitted.log[j].fn, emitted.literals[k]>>]

\* The literals of text, of whitespace nodes and of trailing spaces.
SpacingEvents ==
    SelectSeq(LiteralEvents,
              LAMBDA e : e[1] \in {"writeText", "writeWhitespace", "writeWhitespaceTrailer"})

IsWhitespaceNode(n) == n.type = "Whitespace"

\* The nodes without any whitespace node, and without the whitespace nodes at
\* the two ends only.
WithoutWhitespace(nodes) == SelectSeq(nodes, LAMBDA n : ~IsWhitespaceNode(n))

WithoutEdgeWhitespace(nodes) ==
    LET kept == {i \in 1..Len(nodes) : ~IsWhitespaceNode(nodes[i])}
    IN  IF kept = {} THEN <<>>
        ELSE SubSeq(nodes, CHOOSE i \in kept : \A j \in kept : i <= j,
                           CHOOSE i \in kept : \A j \in kept : j <= i)

\* Inline-or-text as the rule states it: if, switch, for, Text,
\* StringExpression, or an element that is not a block element.
InlineOrText(n) ==
    \/ n.type \in {"IfExpression", "SwitchExpression", "ForExpression", "Text", "StringExpression"}
    \/ n.type = "Element" /\ ~IsBlockElement(n)

\* The trailing space the rule gives the node n followed by after.
TrailerExpected(n, after) ==
    /\ "TrailingSpace" \in DOMAIN n
    /\ n.TrailingSpace # SpaceNone
    /\ InlineOrText(n)
    /\ InlineOrText(after)

\* The spacing events the rule prescribes for a list of nodes whose last node
\* is followed by after: the bodies of control flow hand their own next node
\* down; the children of an element and of a template element have none.
RECURSIVE ExpectedSpacing(_, _)
ExpectedSpacing(nodes, after) ==
    IF Len(nodes) = 0 THEN <<>>
    ELSE
    LET n       == Head(nodes)
        nxt     == IF Len(nodes) > 1 THEN nodes[2] ELSE after
        body(b) == ExpectedSpacing(WithoutEdgeWhitespace(b), nxt)
        own ==
          CASE n.type = "Text" -> <<<<"writeText", n.Value>>>>
            [] n.type = "Whitespace" -> <<<<"writeWhitespace", " ">>>>
            [] n.type = "Element" -> ExpectedSpacing(WithoutWhitespace(n.Children), NilNode)
            [] n.type = "TemplElementExpression" ->
                 ExpectedSpacing(WithoutEdgeWhitespace(n.Children), NilNode)
            [] n.type = "IfExpression" ->
                 body(n.Then)
                 \o Concat([i \in 1..Len(n.ElseIfs) |-> body(n.ElseIfs[i].Then)])
                 \o body(n.Else)
            [] n.type = "SwitchExpression" ->
                 Concat([i \in 1..Len(n.Cases) |-> body(n.Cases[i].Children)])
            [] n.type = "ForExpression" -> body(n.Children)
            [] OTHER -> <<>>
        trailer == IF TrailerExpected(n, nxt) THEN <<<<"writeWhitespaceTrailer", " ">>>> ELSE <<>>
    IN  own \o trailer \o ExpectedSpacing(Tail(nodes), after)

\* C26: a template emits one single-space literal after a node exactly when
\* the node has a trailing-space marker other than none and both the node and
\* its next node are inline-or-text; the last child of a control-flow body has
\* the sibling after the control-flow node as its next node, and the last
\* child of an element, of a template and of a template-element children
\* block has none.
C26_TrailingSpaceRule ==
    (emitted.done /\ call.fn = "writeTemplate") =>
        SpacingEvents = ExpectedSpacing(WithoutWhitespace(call.t.Children), NilNode)

\* A template whose if ends in text with a trailing space and is followed by
\* text: the last child of each branch gets its trailing space from the
\* sibling after the if.
C26_Witness ==
    /\ emitted.done
    /\ call.fn = "writeTemplate"
    /\ Len(call.t.Children) = 3
    /\ call.t.Children[1].type = "IfExpression"
    /\ call.t.Children[2] = Text("a", SpaceVertical)
    /\ call.t.Children[3].type = "TemplElementExpression"
    /\ SubSeq(SpacingEvents, 1, 4)
         = << <<"writeText", "t">>, <<"writeWhitespaceTrailer", " ">>,
              <<"writeText", "m">>, <<"writeWhitespaceTrailer", " ">> >>
    /\ SpacingEvents[Len(SpacingEvents)] = <<"writeText", "l">>

\* The number of literals written for whitespace nodes.
WhitespaceLiterals(events) == Len(SelectSeq(events, LAMBDA e : e[1] = "writeWhitespace"))

\* C27 (as stated): only the leading and trailing Whitespace nodes of the
\* template's child list are stripped; a Whitespace node between two
\* non-whitespace top-level children is emitted as a single-space literal.
C27_TemplateKeepsInnerWhitespace ==
    (emitted.done /\ call.fn = "writeTemplate") =>
        WhitespaceLiterals(SpacingEvents)
          = WhitespaceLiterals(ExpectedSpacing(WithoutEdgeWhitespace(call.t.Children), NilNode))

\* C27 (amended): every Whitespace node of the template's child list is
\* stripped, one between two non-whitespace children included; the only
\* whitespace-node literals of a template are those of the control-flow bodies
\* and template-element children blocks below it, which keep the whitespace
\* between their children.
C27_TemplateStripsAllWhitespace ==
    (emitted.done /\ call.fn = "writeTemplate") =>
        /\ WhitespaceLiterals(SpacingEvents)
             = WhitespaceLiterals(ExpectedSpacing(WithoutWhitespace(call.t.Children), NilNode))
        /\ (\A i \in 1..Len(call.t.Children) : call.t.Children[i].type \in {"Text", "Whitespace"})
             => WhitespaceLiterals(SpacingEvents) = 0

\* Text, whitespace, text at the top of a template: the two texts are written
\* and nothing between them.
C27_Witness ==
    /\ emitted.done
    /\ call.fn = "writeTemplate"
    /\ call.t.Children = <<Text("b", SpaceNone), WhitespaceNode, Text("a", SpaceVertical)>>
    /\ SpacingEvents = << <<"writeText", "b">>, <<"writeText", "a">> >>

----------------------------------------------------------------------------
(* Properties of the fresh variable names.                                 *)

\* The name createVariableName returns when the counter has become k.
VariableName(k) == "templ_7745c5c3_Var" \o Itoa(k)

\* C28: the variable counter starts at zero and is never reset or decreased,
\* not even between the templates of one file, and the k-th name requested is
\* the prefix followed by k: the counter at the end equals the number of names
\* requested, the names are exactly those of 1 .. counter, no two requests got
\* the same name, and every name of a later template has a larger number than
\* every name of an earlier one.
C28_FreshNamesDistinct ==
    emitted.done =>
        LET ns == emitted.names
        IN  /\ emitted.ids = Cardinality(DOMAIN ns)
            /\ {ns[s] : s \in DOMAIN ns} = {VariableName(k) : k \in 1..emitted.ids}
            /\ \A s1, s2 \in DOMAIN ns : s1 # s2 => ns[s1] # ns[s2]
            /\ \A s1, s2 \in DOMAIN ns :
                 s1[1][1] < s2[1][1] =>
                    \E k1, k2 \in 1..emitted.ids :
                       k1 < k2 /\ ns[s1] = VariableName(k1) /\ ns[s2] = VariableName(k2)

\* A file of three different templates: ten names were requested, and the
\* third template's first name is the eighth.
C28_Witness ==
    /\ emitted.done
    /\ call.fn = "generate"
    /\ Len(call.tf.Nodes) = 3
    /\ Cardinality({call.tf.Nodes[i] : i \in 1..3}) = 3
    /\ emitted.ids = 10
    /\ \E s \in DOMAIN emitted.names :
          s[1] = <<3>> /\ s[2] = "childrenVar" /\ emitted.names[s] = VariableName(8)

----------------------------------------------------------------------------
(* Properties of the source map of the writers.                            *)

\* The source ranges of the Expressions of a list of attributes.
RECURSIVE AttributeRanges(_)
AttributeRanges(attrs) ==
    IF Len(attrs) = 0 THEN {}
    ELSE LET a == Head(attrs)
             own == CASE a.type = "ExpressionAttribute" -> {a.Expression.Range}
                      [] a.type = "ConditionalAttribute" ->
                           {a.Expression.Range} \cup AttributeRanges(a.Then)
                                                \cup AttributeRanges(a.Else)
                      [] OTHER -> {}
         IN  own \cup AttributeRanges(Tail(attrs))

\* The source ranges of the Expressions of a list of nodes.
RECURSIVE NodeRanges(_)
NodeRanges(nodes) ==
    IF Len(nodes) = 0 THEN {}
    ELSE LET n == Head(nodes)
             own ==
               CASE n.type = "StringExpression" -> {n.Expression.Range}
                 [] n.type = "Element" -> AttributeRanges(n.Attributes) \cup NodeRanges(n.Children)
                 [] n.type = "TemplElementExpression" ->
                      {n.Expression.Range} \cup NodeRanges(n.Children)
                 [] n.type = "IfExpression" ->
                      {n.Expression.Range} \cup NodeRanges(n.Then) \cup NodeRanges(n.Else)
                      \cup UNION {{n.ElseIfs[i].Expression.Range} \cup NodeRanges(n.ElseIfs[i].Then) :
                                    i \in 1..Len(n.ElseIfs)}
                 [] n.type = "ForExpression" -> {n.Expression.Range} \cup NodeRanges(n.Children)
                 [] n.type = "SwitchExpression" ->
                      {n.Expression.Range}
                      \cup UNION {{n.Cases[i].Expression.Range} \cup NodeRanges(n.Cases[i].Children) :
                                    i \in 1..Len(n.Cases)}
                 [] OTHER -> {}
         IN  own \cup NodeRanges(Tail(nodes))

\* The source ranges of the Expressions of the tree handed to the call.
AstRanges ==
    CASE call.fn = "writeElement" -> NodeRanges(<<call.n>>)
      [] call.fn = "writeTemplate" -> {call.t.Expression.Range} \cup NodeRanges(call.t.Children)
      [] call.fn = "generate" ->
           {call.tf.Package.Expression.Range}
           \cup UNION {{call.tf.Nodes[i].Expression.Range} \cup NodeRanges(call.tf.Nodes[i].Children) :
                         i \in 1..Len(call.tf.Nodes)}
      [] OTHER -> {}

\* C30: every entry of the expressions table has as its src the range of an
\* Expression of the input tree; no entry is recorded for text the generator
\* made up itself, such as the rewritten value of a class expression attribute.
C30_EntriesAreOfTheAst ==
    (emitted.done /\ call.fn \in {"writeElement", "writeTemplate", "generate"}) =>
        \A k \in 1..Len(emitted.sourceMap.Expressions) :
            emitted.sourceMap.Expressions[k].src \in AstRanges

====
